---------------------------- MODULE Spec2Model ----------------------------
(***************************************************************************)
(* State-machine model of the foodie-lab pipeline:                         *)
(*   - validate_rule.js : the rule-based data-quality pass over the four   *)
(*     CSV tables and its three artifacts;                                 *)
(*   - export_etl.js (and its second version, unnamed/part_000) : the      *)
(*     Firestore -> CSV export and its row mapping.                        *)
(*                                                                         *)
(* JavaScript values are records [t, s, n]: t is the type tag, s the       *)
(* characters of a string (a sequence of one-character strings), n the     *)
(* value of a number in fixed point (units of 1/Scale).                    *)
(***************************************************************************)
EXTENDS Integers, Sequences, FiniteSets, TLC

\* ------------------------------------------------------------------------
\* Bounds of the model
\* ------------------------------------------------------------------------
\* Total number of rows over the four CSV files of one validation run.
MaxRows == 3
\* Number of recipe documents in the store of one export run.
MaxRecipes == 2

\* ------------------------------------------------------------------------
\* JavaScript values
\* ------------------------------------------------------------------------
Digits == <<"0", "1", "2", "3", "4", "5", "6", "7", "8", "9">>
\* Fixed-point scale of the modelled numbers: one decimal digit.
Scale == Len(Digits)

Undefined == [t |-> "undefined", s |-> <<>>, n |-> 0, a |-> <<>>]
Null      == [t |-> "null", s |-> <<>>, n |-> 0, a |-> <<>>]
NaN       == [t |-> "NaN", s |-> <<>>, n |-> 0, a |-> <<>>]
Str(chars) == [t |-> "string", s |-> chars, n |-> 0, a |-> <<>>]
Num(k)    == [t |-> "number", s |-> <<>>, n |-> k, a |-> <<>>]
\* a whole number
Whole(k)  == Num(k * Scale)
EmptyStr  == Str(<<>>)
\* an array of strings, items the characters of each
Arr(items) == [t |-> "array", s |-> <<>>, n |-> 0, a |-> items]
\* a Firestore Timestamp whose toDate().toISOString() gives iso; with throws,
\* toDate() raises instead
Timestamp(iso, throws) ==
  [t |-> "timestamp", s |-> iso, n |-> IF throws THEN 1 ELSE 0, a |-> <<>>]
\* a Date whose toISOString() gives iso; an invalid Date raises instead
DateValue(iso, invalid) ==
  [t |-> "date", s |-> iso, n |-> IF invalid THEN 1 ELSE 0, a |-> <<>>]
\* a map value (a plain object); with hasToDate, it has a field named toDate
\* that is not a function
Obj(hasToDate) ==
  [t |-> "object", s |-> <<>>, n |-> IF hasToDate THEN 1 ELSE 0, a |-> <<>>]
\* the outcome of a block that threw
Raised == [t |-> "raised", s |-> <<>>, n |-> 0, a |-> <<>>]
\* the outcome of a block that ended without a return
NoReturn == [t |-> "none", s |-> <<>>, n |-> 0, a |-> <<>>]

IsString(v) == v.t = "string"
\* typeof v === 'number' (NaN included)
IsNumber(v) == v.t \in {"number", "NaN"}
\* v == null (null or undefined)
IsNullish(v) == v.t \in {"undefined", "null"}
\* isNaN on a number value
IsNaNValue(v) == v.t = "NaN"

\* ToBoolean(v): '', 0, NaN, null and undefined are falsy
Truthy(v) ==
  CASE v.t = "string" -> v.s # <<>>
    [] v.t = "number" -> v.n # 0
    [] v.t \in {"array", "timestamp", "date", "object"} -> TRUE
    [] OTHER -> FALSE

\* a || b
OrElse(a, b) == IF Truthy(a) THEN a ELSE b
\* a ?? b
Coalesce(a, b) == IF IsNullish(a) THEN b ELSE a

\* ------------------------------------------------------------------------
\* Strings
\* ------------------------------------------------------------------------
WhiteSpace == {" ", "\t"}
DigitSet == {Digits[i] : i \in 1..10}
DigitVal(c) == (CHOOSE i \in 1..10 : Digits[i] = c) - 1
UpperCase == <<"A", "B", "C", "D", "E", "F", "G", "H", "I", "J", "K", "L", "M",
               "N", "O", "P", "Q", "R", "S", "T", "U", "V", "W", "X", "Y", "Z">>
LowerCase == <<"a", "b", "c", "d", "e", "f", "g", "h", "i", "j", "k", "l", "m",
               "n", "o", "p", "q", "r", "s", "t", "u", "v", "w", "x", "y", "z">>

\* String.prototype.trim on the characters of a string
Trim(cs) ==
  CHOOSE r \in
    {(LET keep == {i \in 1..Len(x) : x[i] \notin WhiteSpace}
      IN IF keep = {} THEN <<>>
         ELSE SubSeq(x, CHOOSE i \in keep : \A j \in keep : i <= j,
                        CHOOSE i \in keep : \A j \in keep : i >= j)) : x \in {cs}} : TRUE

LowerChar(c) ==
  CHOOSE r \in
    {(IF \E i \in 1..Len(UpperCase) : UpperCase[i] = x
      THEN LowerCase[CHOOSE i \in 1..Len(UpperCase) : UpperCase[i] = x]
      ELSE x) : x \in {c}} : TRUE

\* String.prototype.toLowerCase
ToLowerCase(cs) ==
  CHOOSE r \in {[i \in 1..Len(x) |-> LowerChar(x[i])] : x \in {cs}} : TRUE

\* the decimal digits of a natural number
RECURSIVE NatToChars(_)
NatToChars(k) ==
  IF k < 10 THEN <<Digits[k + 1]>>
  ELSE NatToChars(k \div 10) \o <<Digits[(k % 10) + 1]>>

\* Number.prototype.toString of a fixed-point number
NumToChars(k) ==
  LET a == IF k < 0 THEN -k ELSE k
      whole == NatToChars(a \div Scale)
      frac == IF a % Scale = 0 THEN <<>> ELSE <<".">> \o NatToChars(a % Scale)
  IN (IF k < 0 THEN <<"-">> ELSE <<>>) \o whole \o frac

\* Array.prototype.join(',') of the first k items
RECURSIVE JoinTo(_, _)
JoinTo(items, k) ==
  IF k = 0 THEN <<>>
  ELSE IF k = 1 THEN items[1]
  ELSE JoinTo(items, k - 1) \o <<",">> \o items[k]

Join(items) == JoinTo(items, Len(items))

ObjectObject == <<"[", "o", "b", "j", "e", "c", "t", " ", "O", "b", "j", "e", "c", "t", "]">>
InvalidDate == <<"I", "n", "v", "a", "l", "i", "d", " ", "D", "a", "t", "e">>

\* String(v), also what a template literal `${v}` prints (the text of a valid
\* Date is stood for by its ISO text)
ToStringChars(v) ==
  CASE v.t = "string" -> v.s
    [] v.t = "number" -> NumToChars(v.n)
    [] v.t = "NaN" -> <<"N", "a", "N">>
    [] v.t = "null" -> <<"n", "u", "l", "l">>
    [] v.t = "array" -> Join(v.a)
    [] v.t \in {"timestamp", "object"} -> ObjectObject
    [] v.t = "date" -> IF v.n = 1 THEN InvalidDate ELSE v.s
    [] OTHER -> <<"u", "n", "d", "e", "f", "i", "n", "e", "d">>

\* the value of the first k of a run of decimal digits
RECURSIVE DigitsValueTo(_, _)
DigitsValueTo(cs, k) ==
  IF k = 0 THEN 0 ELSE DigitsValueTo(cs, k - 1) * 10 + DigitVal(cs[k])

\* the value of a run of decimal digits
DigitsValue(cs) == CHOOSE r \in {DigitsValueTo(x, Len(x)) : x \in {cs}} : TRUE

AllDigits(cs) == \A i \in 1..Len(cs) : cs[i] \in DigitSet

\* position of the first "." of cs, 0 when there is none
DotPos(cs) ==
  IF \E i \in 1..Len(cs) : cs[i] = "."
  THEN CHOOSE i \in 1..Len(cs) : cs[i] = "." /\ \A j \in 1..(i - 1) : cs[j] # "."
  ELSE 0

\* an unsigned decimal literal: digits, digits.digits, digits. or .digits
\* (fraction digits beyond the first are not representable and read as NaN)
UnsignedDecimal(cs) ==
  CHOOSE r \in
    {(LET p == DotPos(x)
          whole == IF p = 0 THEN x ELSE SubSeq(x, 1, p - 1)
          frac == IF p = 0 THEN <<>> ELSE SubSeq(x, p + 1, Len(x))
      IN IF x = <<>> \/ ~AllDigits(whole) \/ ~AllDigits(frac)
            \/ (whole = <<>> /\ frac = <<>>) \/ Len(frac) > 1
         THEN NaN
         ELSE Num(DigitsValue(whole) * Scale + DigitsValue(frac))) : x \in {cs}} : TRUE

\* StringToNumber: white space is trimmed, the empty string is 0, an optional
\* sign, then a decimal literal; anything else is NaN
StringToNumber(cs) ==
  CHOOSE r \in
    {(LET signed == t # <<>> /\ Head(t) \in {"+", "-"}
      IN IF t = <<>> THEN Num(0)
         ELSE CHOOSE v \in
                {(IF u.t = "NaN" THEN NaN
                  ELSE IF signed /\ Head(t) = "-" THEN Num(-u.n)
                  ELSE u) : u \in {UnsignedDecimal(IF signed THEN Tail(t) ELSE t)}} :
                TRUE) : t \in {Trim(cs)}} : TRUE

\* Number(v) (of an array: Number of its text; of an object: NaN)
Number(v) ==
  CASE v.t = "string" -> StringToNumber(v.s)
    [] v.t = "number" -> v
    [] v.t = "null" -> Num(0)
    [] v.t = "array" -> StringToNumber(Join(v.a))
    [] OTHER -> NaN

\* a + b on numbers
Plus(a, b) == IF a.t = "number" /\ b.t = "number" THEN Num(a.n + b.n) ELSE NaN

\* isNaN(x) for a number x
isNaN(x) == x.t = "NaN"

\* a test that takes every number for an integer
NumberIsAny(x) == x.t = "number"

\* Number.isInteger(x)
NumberIsInteger(x) == x.t = "number" /\ x.n % Scale = 0

\* x < k for a number x and a whole number k (false when x is NaN)
LessThan(x, k) == x.t = "number" /\ x.n < k * Scale
\* x > k
GreaterThan(x, k) == x.t = "number" /\ x.n > k * Scale

\* ------------------------------------------------------------------------
\* validate_rule.js: the rule checks
\* ------------------------------------------------------------------------
TableNames == <<"recipes", "ingredients", "steps", "interactions">>
TableSet == {TableNames[i] : i \in 1..Len(TableNames)}

\* marks a message whose text echoes no value
NoEcho == [t |-> "none", s |-> <<>>, n |-> 0, a |-> <<>>]
\* a message: its fixed text and the raw value it echoes (got '...')
Msg(text, got) == [text |-> text, got |-> got]

\* a key made of the row index alone
ErrorKeyNoTable(table, idx) == <<"", idx>>
\* `${table}::${idx}`, the key of perRowErrors
ErrorKey(table, idx) == <<table, idx>>

\* position in perRowErrors of the record with this key, 0 when absent
KeyPos(perRowErrors, key) ==
  IF \E i \in 1..Len(perRowErrors) : perRowErrors[i].key = key
  THEN CHOOSE i \in 1..Len(perRowErrors) : perRowErrors[i].key = key
  ELSE 0

\* pushError(table, idx, id, msg) on the accumulators st = [errors, perRowErrors]
pushError(st, table, idx, id, msg) ==
  CHOOSE r \in
    {(LET key == ErrorKey(table, idx)
          pos == KeyPos(acc.perRowErrors, key)
          created ==
            IF pos = 0
            THEN Append(acc.perRowErrors,
                        [key |-> key, table |-> table, row_index |-> idx,
                         id |-> OrElse(id, EmptyStr), errors |-> <<>>])
            ELSE acc.perRowErrors
          at == IF pos = 0 THEN Len(created) ELSE pos
      IN [errors |-> Append(acc.errors, [table |-> table, row_index |-> idx,
                                         id |-> OrElse(id, EmptyStr), error |-> msg]),
          perRowErrors |->
            [created EXCEPT ![at].errors = Append(created[at].errors, msg)]]) :
       acc \in {st}} : TRUE

\* !v || String(v).trim() === ''
MissingOrEmpty(v) == ~Truthy(v) \/ Trim(ToStringChars(v)) = <<>>

\* v === '' ? NaN : Number(v)
NumberOrNaN(v) == IF v = EmptyStr THEN NaN ELSE Number(v)

\* v !== '' && v !== null && v !== undefined
Present(v) == v # EmptyStr /\ v # Null /\ v # Undefined

\* a test that takes every present value for a number
isNumberStringLax(val) == ~(val = EmptyStr \/ val = Null \/ val = Undefined)

isNumberString(val) ==
  IF val = EmptyStr \/ val = Null \/ val = Undefined THEN FALSE
  ELSE ~isNaN(Number(val))

validDifficulties == {<<"e", "a", "s", "y">>, <<"m", "e", "d", "i", "u", "m">>,
                      <<"h", "a", "r", "d">>}
validInteractionTypes == {<<"v", "i", "e", "w">>, <<"l", "i", "k", "e">>,
                          <<"c", "o", "o", "k", "_", "a", "t", "t", "e", "m", "p", "t">>,
                          <<"r", "a", "t", "i", "n", "g">>}

\* the value trimmed but not lower-cased
NormalizedNoLower(v) == Trim(ToStringChars(OrElse(v, EmptyStr)))

\* (v || '').toString().trim().toLowerCase()
Normalized(v) == ToLowerCase(Trim(ToStringChars(OrElse(v, EmptyStr))))

\* one `if (condition) pushError(table, idx, id, msg)` statement
Check(fails, msg) == [fails |-> fails, msg |-> msg]

\* the first k if-statements of a row's checks run in their order, each
\* pushing its message when its condition holds
RECURSIVE runChecks(_, _, _, _, _, _)
runChecks(st, table, idx, id, checks, k) ==
  IF k = 0 THEN st
  ELSE CHOOSE r \in
         {(IF checks[k].fails THEN pushError(acc, table, idx, id, checks[k].msg)
           ELSE acc) : acc \in {runChecks(st, table, idx, id, checks, k - 1)}} : TRUE

\* the if-statements of one row, from the first to the last
runAllChecks(st, table, idx, id, checks) ==
  CHOOSE r \in {runChecks(st, table, idx, id, cs, Len(cs)) : cs \in {checks}} : TRUE

\* only the first of the if-statements whose condition holds is run
runFirstCheck(st, table, idx, id, checks) ==
  IF \E k \in 1..Len(checks) : checks[k].fails
  THEN pushError(st, table, idx, id,
                 checks[CHOOSE k \in 1..Len(checks) :
                          checks[k].fails /\ \A j \in 1..(k - 1) : ~checks[j].fails].msg)
  ELSE st

\* the if-statements of recipes.forEach((row, idx) => ...)
recipeChecks(row) ==
  LET rid == Coalesce(row.recipe_id, EmptyStr)
      servings == NumberOrNaN(row.servings)
      prep == NumberOrNaN(row.prep_time_min)
      cook == NumberOrNaN(row.cook_time_min)
      diff == Normalized(row.difficulty)
  IN << Check(MissingOrEmpty(rid), Msg("recipe_id is missing or empty", NoEcho)),
        Check(MissingOrEmpty(row.name), Msg("name is missing or empty", NoEcho)),
        Check(isNaN(servings) \/ LessThan(servings, 1),
              Msg("servings must be a number >= 1", row.servings)),
        Check(~isNaN(prep) /\ LessThan(prep, 0),
              Msg("prep_time_min must be >= 0", row.prep_time_min)),
        Check(~isNaN(cook) /\ LessThan(cook, 0),
              Msg("cook_time_min must be >= 0", row.cook_time_min)),
        Check(diff = <<>>, Msg("difficulty is missing or empty", NoEcho)),
        Check(diff # <<>> /\ diff \notin validDifficulties,
              Msg("invalid difficulty", row.difficulty)) >>

\* the recipe checks that stop at the first violation
validateRecipeFirstOnly(st, row, idx) ==
  runFirstCheck(st, "recipes", idx, OrElse(Coalesce(row.recipe_id, EmptyStr), EmptyStr),
                recipeChecks(row))

\* the body of recipes.forEach((row, idx) => ...)
validateRecipe(st, row, idx) ==
  runAllChecks(st, "recipes", idx, OrElse(Coalesce(row.recipe_id, EmptyStr), EmptyStr),
               recipeChecks(row))

\* the if-statements of ingredients.forEach((row, idx) => ...)
ingredientChecks(row) ==
  LET rid == Coalesce(row.recipe_id, EmptyStr)
  IN << Check(MissingOrEmpty(rid), Msg("recipe_id is missing or empty", NoEcho)),
        Check(MissingOrEmpty(row.name), Msg("ingredient name is missing or empty", NoEcho)),
        Check(Present(row.quantity)
                /\ (~isNumberString(row.quantity) \/ LessThan(Number(row.quantity), 0)),
              Msg("quantity must be numeric and >= 0", row.quantity)) >>

\* the body of ingredients.forEach((row, idx) => ...)
validateIngredient(st, row, idx) ==
  runAllChecks(st, "ingredients", idx, OrElse(Coalesce(row.ingredient_id, EmptyStr), EmptyStr),
               ingredientChecks(row))

\* the if-statements of steps.forEach((row, idx) => ...)
stepChecks(row) ==
  LET rid == Coalesce(row.recipe_id, EmptyStr)
      order == NumberOrNaN(row.order)
  IN << Check(MissingOrEmpty(rid), Msg("recipe_id is missing or empty", NoEcho)),
        Check(MissingOrEmpty(row.text), Msg("step text is missing or empty", NoEcho)),
        Check(isNaN(order) \/ LessThan(order, 1) \/ ~NumberIsInteger(order),
              Msg("order must be an integer >= 1", row.order)) >>

\* the body of steps.forEach((row, idx) => ...)
validateStep(st, row, idx) ==
  runAllChecks(st, "steps", idx, OrElse(Coalesce(row.step_id, EmptyStr), EmptyStr),
               stepChecks(row))

\* the if-statements of interactions.forEach((row, idx) => ...)
interactionChecks(row) ==
  LET iid == Coalesce(row.interaction_id, EmptyStr)
      uid == Coalesce(row.user_id, EmptyStr)
      rid == Coalesce(row.recipe_id, EmptyStr)
      type == Normalized(row.type)
      rated == Present(row.rating)
      numeric == isNumberString(row.rating)
      rating == Number(row.rating)
  IN << Check(MissingOrEmpty(iid), Msg("interaction_id is missing or empty", NoEcho)),
        Check(MissingOrEmpty(uid), Msg("user_id is missing or empty", NoEcho)),
        Check(MissingOrEmpty(rid), Msg("recipe_id is missing or empty", NoEcho)),
        Check(type = <<>> \/ type \notin validInteractionTypes,
              Msg("invalid or missing type", row.type)),
        Check(rated /\ ~numeric, Msg("rating must be numeric 0-5", row.rating)),
        Check(rated /\ numeric /\ (LessThan(rating, 0) \/ GreaterThan(rating, 5)),
              Msg("rating out of range 0-5", row.rating)) >>

\* the body of interactions.forEach((row, idx) => ...)
validateInteraction(st, row, idx) ==
  runAllChecks(st, "interactions", idx, OrElse(Coalesce(row.interaction_id, EmptyStr), EmptyStr),
               interactionChecks(row))

\* the checks of one row of the named table
validateRow(st, table, row, idx) ==
  CASE table = "recipes" -> validateRecipe(st, row, idx)
    [] table = "ingredients" -> validateIngredient(st, row, idx)
    [] table = "steps" -> validateStep(st, row, idx)
    [] OTHER -> validateInteraction(st, row, idx)

\* the loop with idx counted from one
RECURSIVE validateTableOneBased(_, _, _, _)
validateTableOneBased(st, table, rs, k) ==
  IF k = 0 THEN st
  ELSE CHOOSE r \in
         {validateRow(acc, table, rs[k], k) :
            acc \in {validateTableOneBased(st, table, rs, k - 1)}} : TRUE

\* rs.forEach((row, idx) => ...): rs[1..k] checked, idx zero-based
RECURSIVE validateTable(_, _, _, _)
validateTable(st, table, rs, k) ==
  IF k = 0 THEN st
  ELSE CHOOSE r \in
         {validateRow(acc, table, rs[k], k - 1) :
            acc \in {validateTable(st, table, rs, k - 1)}} : TRUE

\* the forEach loops of the first k tables, in their order
RECURSIVE validateTables(_, _)
validateTables(tbls, k) ==
  IF k = 0 THEN [errors |-> <<>>, perRowErrors |-> <<>>]
  ELSE validateTable(validateTables(tbls, k - 1), TableNames[k],
                     tbls[TableNames[k]], Len(tbls[TableNames[k]]))

\* the four forEach loops
validateAll(tbls) == validateTables(tbls, Len(TableNames))

\* ------------------------------------------------------------------------
\* validate_rule.js: the summary and the report
\* ------------------------------------------------------------------------
\* readCsv(filePath): a missing file resolves to no rows
readCsv(file) == IF file.exists THEN file.rows ELSE <<>>

\* totals = { recipes: recipes.length, ... }
totalsOf(tbls) == [t \in TableSet |-> Len(tbls[t])]

\* invalidRowCounts[table]: one per key of perRowErrors whose record names it
invalidRowCounts(perRowErrors, table) ==
  Cardinality({i \in 1..Len(perRowErrors) : perRowErrors[i].table = table})

Max(a, b) == IF a >= b THEN a ELSE b

\* the summary row of a table with the count taken of the rows without error
validSummaryRowNoInvalid(ttls, perRowErrors, table) ==
  [table |-> table, valid_count |-> ttls[table], total_count |-> ttls[table]]

\* one row of validSummary
validSummaryRow(ttls, perRowErrors, table) ==
  [table |-> table,
   valid_count |-> Max(0, ttls[table] - invalidRowCounts(perRowErrors, table)),
   total_count |-> ttls[table]]

\* validSummary, in the order of Object.keys(totals)
validSummaryOf(ttls, perRowErrors) ==
  [i \in 1..Len(TableNames) |-> validSummaryRow(ttls, perRowErrors, TableNames[i])]

\* invalidRecordsDetailed
invalidRecordsOf(perRowErrors) ==
  [i \in 1..Len(perRowErrors) |->
     [table |-> perRowErrors[i].table, row_index |-> perRowErrors[i].row_index,
      id |-> perRowErrors[i].id, errors |-> perRowErrors[i].errors]]

\* report (generated_at, the wall clock, is left out)
reportOf(ttls, summary, perRowErrors) ==
  [totals |-> ttls,
   valid_counts |-> [t \in TableSet |->
      summary[CHOOSE i \in 1..Len(summary) : summary[i].table = t].valid_count],
   invalid_count |-> Len(perRowErrors),
   invalid_records |-> invalidRecordsOf(perRowErrors)]

EmptyReport == [totals |-> [t \in TableSet |-> 0],
                valid_counts |-> [t \in TableSet |-> 0],
                invalid_count |-> 0, invalid_records |-> <<>>]

InvalidCsv == "validation_invalid.csv"
SummaryCsv == "validation_valid_summary.csv"
ReportJson == "validation_report.json"
Artifacts == {InvalidCsv, SummaryCsv, ReportJson}
ReportTxt == "analytics_summary.txt"

\* ------------------------------------------------------------------------
\* State
\* ------------------------------------------------------------------------
VARIABLES
  \* validate_rule.js
  outputDirExists,  \* fs.existsSync(OUTPUT_DIR) when the script starts
  files,            \* the four CSV files: [exists, rows]
  vpc,              \* position of the script
  tables,           \* recipes, ingredients, steps, interactions as read
  errors,           \* the flat list of errors
  perRowErrors,     \* the grouped records, in key insertion order
  validSummary,     \* the per-table summary rows
  report,           \* the structured report
  written,          \* artifacts written completely by this run
  partial,          \* artifacts a failed write may have left incomplete
  content,          \* what was written to each artifact
  thrown,           \* where an exception was thrown, "none" when nowhere
  exitCode,         \* <<>> while running, then <<code>>
  \* export_etl.js
  impl,             \* which version of the export script runs
  store,            \* the Firestore collections
  epc,              \* position of run()
  rows,             \* the rows array of the export function in progress
  recipeIds,        \* the ids returned by exportRecipes
  ri,               \* position of the for loop in recipeIds
  ingredientsRows,  \* rows collected for ingredients.csv
  stepsRows,        \* rows collected for steps.csv
  csv,              \* the table files written by this run
  warnings,         \* console.warn of a child read that failed
  failed,           \* the reads that were rejected: <<collection, recipe id>>
  ethrown,          \* where the exception that ended the run was thrown
  eexit,            \* <<>> while running, then <<code>>
  \* the row mapper alone
  doc,              \* a document
  mapped,           \* the rows mapped so far: from doc, then from that row
  entity,           \* the entity type of doc
  findings,         \* <<>>, then <<the flat errors of the row as written>>
  \* analysis.js (it reads the tables of files, when outputDirExists)
  apc,              \* position of the script
  atables,          \* the rows read from each table file
  stats,            \* <<>>, then <<the statistics computed by main>>
  areport,          \* <<>>, then <<the statistics written to analytics_summary.txt>>
  athrown,          \* where an exception was thrown, "none" when nowhere
  aexit,            \* <<>> while running, <<0>> at a normal end, <<1>> after process.exit(1)
  \* pearson alone
  series,           \* <<x, y>>: the two arrays passed to pearson
  corr,             \* <<>>, then <<the value returned>>
  \* the read streams of a script, event by event
  streams,          \* per script and table: the stream's state and the rows pushed so far
  \* the writes to output/ so far: the begin and the end of each, in order
  wlog

vvars == <<outputDirExists, files, vpc, tables, errors, perRowErrors,
           validSummary, report, written, partial, content, thrown, exitCode>>

evars == <<impl, store, epc, rows, recipeIds, ri, ingredientsRows, stepsRows, csv,
           warnings, failed, ethrown, eexit>>

mvars == <<doc, mapped, entity, findings>>

avars == <<apc, atables, stats, areport, athrown, aexit>>

pvars == <<series, corr>>

rvars == <<streams>>

wvars == <<wlog>>

vars == <<vvars, evars, mvars, avars, pvars, rvars, wvars>>

NoTables == [t \in TableSet |-> <<>>]
NoContent == [invalid |-> <<>>, summary |-> <<>>, report |-> EmptyReport]

\* the state of a validation run that has not started
ValidateIdle ==
  /\ vpc = "start"
  /\ tables = NoTables
  /\ errors = <<>>
  /\ perRowErrors = <<>>
  /\ validSummary = <<>>
  /\ report = EmptyReport
  /\ written = {}
  /\ partial = {}
  /\ content = NoContent
  /\ thrown = "none"
  /\ exitCode = <<>>

\* ------------------------------------------------------------------------
\* export_etl.js and unnamed/part_000: the row mapper
\* ------------------------------------------------------------------------
Impls == {"export_etl.js", "part_000"}

\* the try block of toISO of export_etl.js: toDate() of a timestamp and
\* toISOString() of a Date may throw
toISOTry(ts) ==
  IF ts.t = "timestamp" THEN (IF ts.n = 1 THEN Raised ELSE Str(ts.s))
  ELSE IF ts.t = "date" THEN (IF ts.n = 1 THEN Raised ELSE Str(ts.s))
  ELSE Str(ToStringChars(ts))

\* toISO(ts) of export_etl.js without its catch clause
toISONoCatch(ts) ==
  IF ~Truthy(ts) THEN EmptyStr ELSE toISOTry(ts)

\* toISO(ts) of export_etl.js
toISO(ts) ==
  IF ~Truthy(ts) THEN EmptyStr
  ELSE IF toISOTry(ts) = Raised THEN Str(ToStringChars(ts))
  ELSE toISOTry(ts)

\* the try block of toISO of part_000: any truthy toDate is called, which
\* throws when it is not a function; no return for any other value
toISOTry_p0(ts) ==
  IF ts.t = "timestamp" THEN (IF ts.n = 1 THEN Raised ELSE Str(ts.s))
  ELSE IF ts.t = "object" /\ ts.n = 1 THEN Raised
  ELSE IF ts.t = "date" THEN (IF ts.n = 1 THEN Raised ELSE Str(ts.s))
  ELSE NoReturn

\* toISO(ts) of part_000
toISO_p0(ts) ==
  IF ~Truthy(ts) THEN EmptyStr
  ELSE IF toISOTry_p0(ts) \in {Raised, NoReturn} THEN Str(ToStringChars(ts))
  ELSE toISOTry_p0(ts)

\* Array.isArray(d.tags) ? d.tags.join(',') : (d.tags || '')
tagsOf(tags) == IF tags.t = "array" THEN Str(Join(tags.a)) ELSE OrElse(tags, EmptyStr)

\* a mapper that defaults a non-numeric value to 0 and converts the others
OrZero(v) ==
  IF IsNullish(v) THEN EmptyStr
  ELSE IF isNaN(Number(v)) THEN Whole(0)
  ELSE Number(v)

\* v != null ? v : ''
OrEmpty(v) == IF IsNullish(v) THEN EmptyStr ELSE v

\* isNaN(x) ? '' : x
BlankIfNaN(x) == IF isNaN(x) THEN EmptyStr ELSE x

\* d.x != null ? Number(d.x) : 0
NumberOrZero(v) == IF IsNullish(v) THEN Num(0) ELSE Number(v)

\* Number(d.x) || 0
NumberOrElseZero(v) == OrElse(Number(v), Num(0))

\* d.total_time_min != null ? Number(d.total_time_min) : prep + cook
totalOf(src, prep, cook) == IF IsNullish(src) THEN Plus(prep, cook) ELSE Number(src)

\* the row exportRecipes of export_etl.js pushes for a document
recipeRow(d) ==
  LET prep == NumberOrZero(d.data.prep_time_min)
      cook == NumberOrZero(d.data.cook_time_min)
      total == totalOf(d.data.total_time_min, prep, cook)
  IN [recipe_id |-> d.id,
      name |-> OrElse(d.data.name, EmptyStr),
      description |-> OrElse(d.data.description, EmptyStr),
      servings |-> OrEmpty(d.data.servings),
      prep_time_min |-> BlankIfNaN(prep),
      cook_time_min |-> BlankIfNaN(cook),
      total_time_min |-> BlankIfNaN(total),
      difficulty |-> OrElse(d.data.difficulty, EmptyStr),
      cuisine |-> OrElse(d.data.cuisine, EmptyStr),
      tags |-> tagsOf(d.data.tags),
      author_user_id |-> OrElse(d.data.author_user_id, EmptyStr),
      created_at |-> toISO(d.data.created_at)]

\* the row exportRecipes of part_000 pushes for a document
recipeRow_p0(d) ==
  LET prep == NumberOrElseZero(d.data.prep_time_min)
      cook == NumberOrElseZero(d.data.cook_time_min)
      total == totalOf(d.data.total_time_min, prep, cook)
  IN [recipe_id |-> d.id,
      name |-> OrElse(d.data.name, EmptyStr),
      description |-> OrElse(d.data.description, EmptyStr),
      servings |-> Coalesce(d.data.servings, EmptyStr),
      prep_time_min |-> prep,
      cook_time_min |-> cook,
      total_time_min |-> total,
      difficulty |-> OrElse(d.data.difficulty, EmptyStr),
      cuisine |-> OrElse(d.data.cuisine, EmptyStr),
      tags |-> tagsOf(d.data.tags),
      author_user_id |-> OrElse(d.data.author_user_id, EmptyStr),
      created_at |-> toISO_p0(d.data.created_at)]

mapRecipe(version, d) == IF version = "part_000" THEN recipeRow_p0(d) ELSE recipeRow(d)

\* the row pushed for a document of an ingredients sub-collection (both versions)
ingredientRow(rid, d) ==
  [recipe_id |-> rid,
   ingredient_id |-> OrElse(d.data.ingredient_id, d.id),
   name |-> OrElse(d.data.name, EmptyStr),
   quantity |-> OrEmpty(d.data.quantity),
   unit |-> OrElse(d.data.unit, EmptyStr),
   notes |-> OrElse(d.data.notes, EmptyStr),
   order |-> OrEmpty(d.data.order)]

\* the row pushed for a document of a steps sub-collection (both versions)
stepRow(rid, d) ==
  [recipe_id |-> rid,
   step_id |-> OrElse(d.data.step_id, d.id),
   order |-> OrEmpty(d.data.order),
   text |-> OrElse(d.data.text, EmptyStr)]

\* the row exportInteractions pushes for a document
interactionRow(version, d) ==
  [interaction_id |-> OrElse(d.data.interaction_id, d.id),
   user_id |-> OrElse(d.data.user_id, EmptyStr),
   recipe_id |-> OrElse(d.data.recipe_id, EmptyStr),
   type |-> OrElse(d.data.type, EmptyStr),
   rating |-> OrEmpty(d.data.rating),
   difficulty_used |-> OrElse(d.data.difficulty_used, EmptyStr),
   source |-> OrElse(d.data.source, EmptyStr),
   created_at |-> IF version = "part_000" THEN toISO_p0(d.data.created_at)
                  ELSE toISO(d.data.created_at)]

\* the row exportUsers pushes for a document
userRow(d) ==
  [user_id |-> d.id,
   name |-> OrElse(d.data.name, EmptyStr),
   email |-> OrElse(d.data.email, EmptyStr),
   country |-> OrElse(d.data.country, EmptyStr),
   created_at |-> toISO(d.data.created_at)]

\* the rows of a listing pushed in front of those collected before
pushAllInFront(acc, mappedRows) == mappedRows \o acc

\* snapshot.forEach(doc => rows.push(...)): the rows mapped from the
\* documents of a listing, appended in listing order
pushAll(acc, mappedRows) == acc \o mappedRows

\* ------------------------------------------------------------------------
\* Inputs of a validation run
\* ------------------------------------------------------------------------
c_r1 == Str(<<"r", "1">>)
c_r2 == Str(<<"r", "2">>)
c_blank == Str(<<" ">>)
c_abc == Str(<<"a", "b", "c">>)
c_n0 == Str(<<"0">>)
c_n1 == Str(<<"1">>)
c_n2 == Str(<<"2">>)
c_n4 == Str(<<"4">>)
c_n5 == Str(<<"5">>)
c_n7 == Str(<<"7">>)
c_n10 == Str(<<"1", "0">>)
c_neg1 == Str(<<"-", "1">>)
c_n2_5 == Str(<<"2", ".", "5">>)
c_easy == Str(<<"e", "a", "s", "y">>)
c_Easy == Str(<<" ", "E", "a", "s", "y", " ">>)
c_bogus == Str(<<"b", "o", "g", "u", "s">>)
c_name == Str(<<"d", "a", "l">>)
c_salt == Str(<<"s", "a", "l", "t">>)
c_i1 == Str(<<"i", "1">>)
c_s1 == Str(<<"s", "1">>)
c_x1 == Str(<<"x", "1">>)
c_u1 == Str(<<"u", "1">>)
c_mix == Str(<<"m", "i", "x">>)
c_rating == Str(<<"r", "a", "t", "i", "n", "g">>)
c_like == Str(<<"l", "i", "k", "e">>)
c_View == Str(<<" ", "V", "i", "e", "w">>)

\* every combination of the field values a rule tells apart
AllRecipeRows ==
  [recipe_id : {c_r1, EmptyStr, c_blank, Undefined},
   name : {c_name, EmptyStr},
   servings : {c_n2, c_n0, c_abc, EmptyStr},
   prep_time_min : {c_n10, c_neg1, c_abc, EmptyStr},
   cook_time_min : {c_n5, c_neg1},
   difficulty : {c_easy, c_Easy, EmptyStr, c_bogus}]

AllIngredientRows ==
  [recipe_id : {c_r1, EmptyStr},
   ingredient_id : {c_i1, EmptyStr},
   name : {c_salt, c_blank},
   quantity : {c_n1, c_n2_5, c_neg1, c_abc, EmptyStr, c_blank, Undefined}]

AllStepRows ==
  [recipe_id : {c_r1, EmptyStr},
   step_id : {c_s1},
   text : {c_mix, EmptyStr},
   order : {c_n1, c_n2, c_n0, c_neg1, c_n2_5, c_abc, EmptyStr, c_blank, Undefined}]

AllInteractionRows ==
  [interaction_id : {c_x1, EmptyStr},
   user_id : {c_u1, EmptyStr},
   recipe_id : {c_r1, EmptyStr},
   type : {c_rating, c_like, c_View, EmptyStr, c_bogus},
   rating : {EmptyStr, c_n4, c_n5, c_n7, c_neg1, c_abc, c_n2_5, Undefined}]

AllRows(t) ==
  CASE t = "recipes" -> AllRecipeRows
    [] t = "ingredients" -> AllIngredientRows
    [] t = "steps" -> AllStepRows
    [] OTHER -> AllInteractionRows

\* per table: a row without violation, one with one, one with several
SomeRecipeRows ==
  {[recipe_id |-> c_r1, name |-> c_name, servings |-> c_n2, prep_time_min |-> c_n10,
    cook_time_min |-> c_n5, difficulty |-> c_easy],
   [recipe_id |-> c_r2, name |-> c_name, servings |-> c_n0, prep_time_min |-> c_n10,
    cook_time_min |-> c_n5, difficulty |-> c_easy],
   [recipe_id |-> EmptyStr, name |-> EmptyStr, servings |-> c_abc, prep_time_min |-> c_neg1,
    cook_time_min |-> c_neg1, difficulty |-> c_bogus]}

SomeIngredientRows ==
  {[recipe_id |-> c_r1, ingredient_id |-> c_i1, name |-> c_salt, quantity |-> c_n2_5],
   [recipe_id |-> c_r1, ingredient_id |-> c_i1, name |-> c_salt, quantity |-> c_neg1],
   [recipe_id |-> EmptyStr, ingredient_id |-> EmptyStr, name |-> c_blank, quantity |-> c_abc]}

SomeStepRows ==
  {[recipe_id |-> c_r1, step_id |-> c_s1, text |-> c_mix, order |-> c_n1],
   [recipe_id |-> c_r1, step_id |-> c_s1, text |-> c_mix, order |-> c_n2_5],
   [recipe_id |-> EmptyStr, step_id |-> c_s1, text |-> EmptyStr, order |-> c_n0]}

SomeInteractionRows ==
  {[interaction_id |-> c_x1, user_id |-> c_u1, recipe_id |-> c_r1, type |-> c_rating,
    rating |-> c_n4],
   [interaction_id |-> c_x1, user_id |-> c_u1, recipe_id |-> c_r1, type |-> c_rating,
    rating |-> c_n7],
   [interaction_id |-> EmptyStr, user_id |-> EmptyStr, recipe_id |-> EmptyStr,
    type |-> c_bogus, rating |-> c_abc]}

File(rs) == [exists |-> TRUE, rows |-> rs]
MissingFile == [exists |-> FALSE, rows |-> <<>>]
\* an empty table is a file with no data row, or no file
FilesOf(rs) == IF rs = <<>> THEN {File(rs), MissingFile} ELSE {File(rs)}

\* ------------------------------------------------------------------------
\* Inputs of an export run
\* ------------------------------------------------------------------------
RecipeFields == {"recipe_id", "name", "description", "servings", "prep_time_min", "cook_time_min",
                 "total_time_min", "difficulty", "cuisine", "tags", "author_user_id",
                 "created_at"}
ChildFields == {"ingredient_id", "step_id", "name", "quantity", "unit", "notes", "order",
                "text"}
InteractionFields == {"interaction_id", "user_id", "recipe_id", "type", "rating",
                      "difficulty_used", "source", "created_at"}
UserFields == {"name", "email", "country", "created_at"}

\* a document: its store-assigned id and its fields, absent ones undefined
Doc(id, fields, given) ==
  [id |-> id,
   data |-> [f \in fields |-> IF f \in DOMAIN given THEN given[f] ELSE Undefined]]

\* a recipe document with its two sub-collections
RecipeDoc(id, given, ingredients, steps) ==
  [id |-> id,
   data |-> [f \in RecipeFields |-> IF f \in DOMAIN given THEN given[f] ELSE Undefined],
   ingredients |-> ingredients, steps |-> steps]

c_iso == <<"2", "0", "2", "5", "-", "0", "1", "-", "0", "1", "T", "0", "0", ":", "0", "0",
           ":", "0", "0", ".", "0", "0", "0", "Z">>
c_i2 == Str(<<"i", "2">>)
c_s2 == Str(<<"s", "2">>)
c_r3 == Str(<<"r", "3">>)
c_ing9 == Str(<<"i", "n", "g", "9">>)
c_rice == Str(<<"r", "i", "c", "e">>)
c_boil == Str(<<"b", "o", "i", "l">>)

d_salt == Doc(c_i1, ChildFields, [name |-> c_salt, quantity |-> Whole(1), order |-> Whole(1)])
d_rice == Doc(c_i2, ChildFields, [ingredient_id |-> c_ing9, name |-> c_rice,
                                  quantity |-> c_abc, order |-> Whole(2)])
d_mix == Doc(c_s1, ChildFields, [order |-> Whole(1), text |-> c_mix])
d_boil == Doc(c_s2, ChildFields, [order |-> Whole(2), text |-> c_boil])

RecipeDocs ==
  {RecipeDoc(c_r1, [name |-> c_name, servings |-> Whole(2), prep_time_min |-> Whole(10),
                    cook_time_min |-> Whole(5), difficulty |-> c_easy,
                    tags |-> Arr(<<<<"a">>, <<"b">>>>),
                    created_at |-> Timestamp(c_iso, FALSE)],
             <<d_salt, d_rice>>, <<d_mix, d_boil>>),
   RecipeDoc(c_r2, [name |-> c_name, servings |-> c_abc, prep_time_min |-> c_abc,
                    total_time_min |-> Whole(45), difficulty |-> c_bogus,
                    tags |-> Str(<<"a", ",", "b">>)],
             <<d_rice, d_salt>>, <<>>),
   RecipeDoc(c_r3, <<>>, <<>>, <<d_mix>>)}

InteractionDocs ==
  {Doc(c_x1, InteractionFields, [user_id |-> c_u1, recipe_id |-> c_r1, type |-> c_like,
                                 created_at |-> Timestamp(c_iso, FALSE)]),
   Doc(c_x1, InteractionFields, [interaction_id |-> c_i2, user_id |-> c_u1,
                                 recipe_id |-> c_r2, type |-> c_rating,
                                 rating |-> Whole(7)])}

UserDocs == {Doc(c_u1, UserFields, [name |-> c_name])}

\* sequences without repetition of up to k members of set
RECURSIVE Lists(_, _)
Lists(set, k) ==
  IF k = 0 THEN {<<>>}
  ELSE LET shorter == Lists(set, k - 1)
       IN shorter \cup {Append(l, x) : l \in {m \in shorter : Len(m) = k - 1},
                                       x \in set} 

\* document ids are unique within a collection
DistinctIds(docs) == \A i, j \in 1..Len(docs) : i # j => docs[i].id # docs[j].id

Stores ==
  {[recipes |-> r, interactions |-> x, users |-> u] :
     r \in {l \in Lists(RecipeDocs, MaxRecipes) : DistinctIds(l)},
     x \in {l \in Lists(InteractionDocs, 1) : DistinctIds(l)},
     u \in Lists(UserDocs, 1)}

EmptyStore == [recipes |-> <<>>, interactions |-> <<>>, users |-> <<>>]

\* the values a time field of a recipe document may hold
TimeValues == {Undefined, Null, Whole(10), Whole(0), Num(25), Str(<<"1", "5">>),
               c_abc, EmptyStr}

MapDocs ==
  {RecipeDoc(c_r1, [prep_time_min |-> p, cook_time_min |-> c, total_time_min |-> t],
             <<>>, <<>>) : p \in TimeValues, c \in TimeValues, t \in TimeValues}

\* ------------------------------------------------------------------------
\* Files written by an export run, and the runs at rest
\* ------------------------------------------------------------------------
RecipeCsv == "recipe.csv"
IngredientsCsv == "ingredients.csv"
StepsCsv == "steps.csv"
InteractionsCsv == "interactions.csv"
UsersCsv == "users.csv"
CsvNames == {RecipeCsv, IngredientsCsv, StepsCsv, InteractionsCsv, UsersCsv}

\* the text csv-writer puts in a cell: '' for null and undefined, else String(v)
CsvCell(v) == IF IsNullish(v) THEN EmptyStr ELSE Str(ToStringChars(v))

\* the records as written: every field stringified
CsvRows(records) ==
  [i \in 1..Len(records) |-> [f \in DOMAIN records[i] |-> CsvCell(records[i][f])]]

\* the state of an export run that has not started
ExportIdle ==
  /\ epc = "start"
  /\ rows = <<>>
  /\ recipeIds = <<>>
  /\ ri = 0
  /\ ingredientsRows = <<>>
  /\ stepsRows = <<>>
  /\ csv = [f \in CsvNames |-> <<>>]
  /\ warnings = <<>>
  /\ failed = {}
  /\ ethrown = "none"
  /\ eexit = <<>>

\* no export runs
ExportOff == impl = "export_etl.js" /\ store = EmptyStore /\ ExportIdle
\* no validation runs
ValidateOff ==
  outputDirExists = FALSE /\ files = [t \in TableSet |-> MissingFile] /\ ValidateIdle
\* no document is mapped on its own
MapIdle ==
  /\ doc = RecipeDoc(EmptyStr, <<>>, <<>>, <<>>)
  /\ mapped = <<>>
  /\ entity = "recipe"
  /\ findings = <<>>
\* the state of an analytics run that has not started
AnalysisIdle ==
  /\ apc = "start"
  /\ atables = NoTables
  /\ stats = <<>>
  /\ areport = <<>>
  /\ athrown = "none"
  /\ aexit = <<>>

\* the log after a write by a step of a script to a file of output/: the call
\* begins the write, the awaited promise (or the synchronous call) ends it,
\* with "end" when the file was written and "fail" when the write threw
WriteLogged(log, script, step, file, how) ==
  log \o <<[script |-> script, step |-> step, file |-> file, ev |-> "begin"],
           [script |-> script, step |-> step, file |-> file, ev |-> how]>>

\* pearson has not been called on its own
PearsonIdle == series = <<<<>>, <<>>>> /\ corr = <<>>

Scripts == {"validate_rule.js", "analysis.js"}
\* no read stream has been created
NoStreams ==
  [sc \in Scripts |-> [t \in TableSet |-> [state |-> "none", pos |-> 0, rows |-> <<>>]]]
ReadsIdle == streams = NoStreams

\* ------------------------------------------------------------------------
\* validate_rule.js: the run
\* ------------------------------------------------------------------------
InitValidate ==
  /\ outputDirExists \in BOOLEAN
  /\ \/ \E u \in TableSet : \E row \in AllRows(u) :
          files = [t \in TableSet |-> IF t = u THEN File(<<row>>) ELSE File(<<>>)]
     \/ \E n1 \in 0..MaxRows : \E n2 \in 0..(MaxRows - n1) :
        \E n3 \in 0..(MaxRows - n1 - n2) : \E n4 \in 0..(MaxRows - n1 - n2 - n3) :
        \E r \in [1..n1 -> SomeRecipeRows], g \in [1..n2 -> SomeIngredientRows],
           s \in [1..n3 -> SomeStepRows], x \in [1..n4 -> SomeInteractionRows] :
        \E fr \in FilesOf(r), fg \in FilesOf(g), fs \in FilesOf(s), fx \in FilesOf(x) :
          files = [t \in TableSet |->
                     CASE t = "recipes" -> fr
                       [] t = "ingredients" -> fg
                       [] t = "steps" -> fs
                       [] OTHER -> fx]
  /\ ValidateIdle
  /\ ExportOff
  /\ MapIdle
  /\ AnalysisIdle
  /\ PearsonIdle
  /\ ReadsIdle
  /\ wlog = <<>>

\* process.exit(code)
Exit(code) == vpc' = "exited" /\ exitCode' = <<code>>

\* lines 12-16: without output/ the script exits before main
CheckOutputDir ==
  /\ vpc = "start"
  /\ IF outputDirExists
     THEN vpc' = "reading" /\ UNCHANGED exitCode
     ELSE Exit(1)
  /\ UNCHANGED <<outputDirExists, files, tables, errors, perRowErrors, validSummary,
                 report, written, partial, content, thrown>>
  /\ UNCHANGED <<evars, mvars, avars, pvars, rvars, wvars>>

\* the four readCsv promises resolve
ReadResolve ==
  /\ vpc = "reading"
  /\ tables' = [t \in TableSet |-> readCsv(files[t])]
  /\ vpc' = "validating"
  /\ UNCHANGED <<outputDirExists, files, errors, perRowErrors, validSummary, report,
                 written, partial, content, thrown, exitCode>>
  /\ UNCHANGED <<evars, mvars, avars, pvars, rvars, wvars>>

\* a read stream emits 'error': Promise.all rejects, the catch exits
ReadReject ==
  /\ vpc = "reading"
  /\ \E t \in TableSet : files[t].exists
  /\ thrown' = "read"
  /\ Exit(1)
  /\ UNCHANGED <<outputDirExists, files, tables, errors, perRowErrors, validSummary,
                 report, written, partial, content>>
  /\ UNCHANGED <<evars, mvars, avars, pvars, rvars, wvars>>

\* the four forEach loops
ValidateRows ==
  /\ vpc = "validating"
  /\ LET st == validateAll(tables)
     IN errors' = st.errors /\ perRowErrors' = st.perRowErrors
  /\ vpc' = "write_invalid"
  /\ UNCHANGED <<outputDirExists, files, tables, validSummary, report, written,
                 partial, content, thrown, exitCode>>
  /\ UNCHANGED <<evars, mvars, avars, pvars, rvars, wvars>>

\* a write throws: the file may be left incomplete; the catch exits
WriteFails(artifact, where) ==
  /\ thrown' = where
  /\ \E left \in BOOLEAN :
       partial' = IF left THEN partial \cup {artifact} ELSE partial
  /\ wlog' = WriteLogged(wlog, "validate_rule.js", where, artifact, "fail")
  /\ Exit(1)
  /\ UNCHANGED <<written, content>>

\* await invalidWriter.writeRecords(errors), then the summary is computed
WriteInvalid ==
  /\ vpc = "write_invalid"
  /\ \/ /\ written' = written \cup {InvalidCsv}
        /\ wlog' = WriteLogged(wlog, "validate_rule.js", "write_invalid", InvalidCsv, "end")
        /\ content' = [content EXCEPT !.invalid = errors]
        /\ validSummary' = validSummaryOf(totalsOf(tables), perRowErrors)
        /\ vpc' = "write_summary"
        /\ UNCHANGED <<partial, thrown, exitCode>>
     \/ /\ WriteFails(InvalidCsv, "write_invalid")
        /\ UNCHANGED validSummary
  /\ UNCHANGED <<outputDirExists, files, tables, errors, perRowErrors, report>>
  /\ UNCHANGED <<evars, mvars, avars, pvars, rvars>>

\* the summary write begun and not awaited: the script goes on to the report
\* while validation_valid_summary.csv is not written yet
WriteSummaryNotAwaited ==
  /\ vpc = "write_summary"
  /\ wlog' = Append(wlog, [script |-> "validate_rule.js", step |-> "write_summary",
                           file |-> SummaryCsv, ev |-> "begin"])
  /\ report' = reportOf(totalsOf(tables), validSummary, perRowErrors)
  /\ vpc' = "write_report"
  /\ UNCHANGED <<written, content, partial, thrown, exitCode>>
  /\ UNCHANGED <<outputDirExists, files, tables, errors, perRowErrors, validSummary>>
  /\ UNCHANGED <<evars, mvars, avars, pvars, rvars>>

\* await summaryWriter.writeRecords(validSummary), then the report is built
WriteSummary ==
  /\ vpc = "write_summary"
  /\ \/ /\ written' = written \cup {SummaryCsv}
        /\ wlog' = WriteLogged(wlog, "validate_rule.js", "write_summary", SummaryCsv, "end")
        /\ content' = [content EXCEPT !.summary = validSummary]
        /\ report' = reportOf(totalsOf(tables), validSummary, perRowErrors)
        /\ vpc' = "write_report"
        /\ UNCHANGED <<partial, thrown, exitCode>>
     \/ /\ WriteFails(SummaryCsv, "write_summary")
        /\ UNCHANGED report
  /\ UNCHANGED <<outputDirExists, files, tables, errors, perRowErrors, validSummary>>
  /\ UNCHANGED <<evars, mvars, avars, pvars, rvars>>

\* the report step with the exit code taken from the number of invalid records
WriteReportFailOnInvalid ==
  /\ vpc = "write_report"
  /\ \/ /\ written' = written \cup {ReportJson}
        /\ wlog' = WriteLogged(wlog, "validate_rule.js", "write_report", ReportJson, "end")
        /\ content' = [content EXCEPT !.report = report]
        /\ Exit(IF report.invalid_count = 0 THEN 0 ELSE 1)
        /\ UNCHANGED <<partial, thrown>>
     \/ WriteFails(ReportJson, "write_report")
  /\ UNCHANGED <<outputDirExists, files, tables, errors, perRowErrors, validSummary,
                 report>>
  /\ UNCHANGED <<evars, mvars, avars, pvars, rvars>>

\* fs.writeFileSync(validation_report.json), the console summary, process.exit(0)
WriteReport ==
  /\ vpc = "write_report"
  /\ \/ /\ written' = written \cup {ReportJson}
        /\ wlog' = WriteLogged(wlog, "validate_rule.js", "write_report", ReportJson, "end")
        /\ content' = [content EXCEPT !.report = report]
        /\ Exit(0)
        /\ UNCHANGED <<partial, thrown>>
     \/ WriteFails(ReportJson, "write_report")
  /\ UNCHANGED <<outputDirExists, files, tables, errors, perRowErrors, validSummary,
                 report>>
  /\ UNCHANGED <<evars, mvars, avars, pvars, rvars>>

NextValidate ==
  \/ CheckOutputDir
  \/ ReadResolve
  \/ ReadReject
  \/ ValidateRows
  \/ WriteInvalid
  \/ WriteSummary
  \/ WriteReport

SpecValidate == InitValidate /\ [][NextValidate]_vars

\* ------------------------------------------------------------------------
\* export_etl.js and unnamed/part_000: the run
\* ------------------------------------------------------------------------
InitExport ==
  /\ impl \in Impls
  /\ store \in Stores
  /\ ExportIdle
  /\ ValidateOff
  /\ MapIdle
  /\ AnalysisIdle
  /\ PearsonIdle
  /\ ReadsIdle
  /\ wlog = <<>>

\* the sub-collection `kind` of the recipe document with id rid
Children(rid, kind) ==
  LET r == CHOOSE d \in {store.recipes[i] : i \in 1..Len(store.recipes)} : d.id = rid
  IN IF kind = "ingredients" THEN r.ingredients ELSE r.steps

\* the catch of run(): console.error, process.exit(1)
Abort(where) ==
  /\ ethrown' = where
  /\ epc' = "exited"
  /\ eexit' = <<1>>

\* ensureOutputDir()
StartExport ==
  /\ epc = "start"
  /\ epc' = "recipes_get"
  /\ UNCHANGED <<rows, recipeIds, ri, ingredientsRows, stepsRows, csv, warnings, failed,
                 ethrown, eexit>>
  /\ UNCHANGED <<impl, store, vvars, mvars, avars, pvars, rvars, wvars>>

\* exportRecipes: await db.collection('recipes').get(), then the rows are mapped
RecipesGet ==
  /\ epc = "recipes_get"
  /\ \/ /\ rows' = pushAll(<<>>, [i \in 1..Len(store.recipes) |->
                                     mapRecipe(impl, store.recipes[i])])
        /\ epc' = "recipes_write"
        /\ UNCHANGED <<failed, ethrown, eexit>>
     \/ /\ failed' = failed \cup {<<"recipes", EmptyStr>>}
        /\ Abort("recipes_get")
        /\ UNCHANGED rows
  /\ UNCHANGED <<recipeIds, ri, ingredientsRows, stepsRows, csv, warnings>>
  /\ UNCHANGED <<impl, store, vvars, mvars, avars, pvars, rvars, wvars>>

\* exportRecipes: await writeRecords(rows); the ids are returned and the loop
\* over them starts
RecipesWrite ==
  /\ epc = "recipes_write"
  /\ \/ /\ csv' = [csv EXCEPT ![RecipeCsv] = <<CsvRows(rows)>>]
        /\ wlog' = WriteLogged(wlog, impl, "recipes_write", RecipeCsv, "end")
        /\ recipeIds' = [i \in 1..Len(rows) |-> rows[i].recipe_id]
        /\ ri' = 1
        /\ epc' = IF rows = <<>> THEN "ingredients_write" ELSE "ingredients_get"
        /\ UNCHANGED <<ethrown, eexit>>
     \/ /\ Abort("recipes_write")
        /\ wlog' = WriteLogged(wlog, impl, "recipes_write", RecipeCsv, "fail")
        /\ UNCHANGED <<csv, recipeIds, ri>>
  /\ UNCHANGED <<rows, ingredientsRows, stepsRows, warnings, failed>>
  /\ UNCHANGED <<impl, store, vvars, mvars, avars, pvars, rvars>>

\* a child read is rejected: export_etl.js warns and goes on, part_000 has no
\* try around the read and the exception reaches the catch of run()
ChildReadFails(kind, next) ==
  /\ failed' = failed \cup {<<kind, recipeIds[ri]>>}
  /\ IF impl = "export_etl.js"
     THEN /\ warnings' = Append(warnings, <<kind, recipeIds[ri]>>)
          /\ epc' = next
          /\ UNCHANGED <<ethrown, eexit>>
     ELSE /\ Abort(kind \o "_get")
          /\ UNCHANGED warnings

\* the loop body, first half: the ingredients of recipeIds[ri]
IngredientsGet ==
  /\ epc = "ingredients_get"
  /\ \/ /\ ingredientsRows' =
             LET rid == recipeIds[ri]
                 docs == Children(rid, "ingredients")
             IN pushAll(ingredientsRows,
                        [i \in 1..Len(docs) |-> ingredientRow(rid, docs[i])])
        /\ epc' = "steps_get"
        /\ UNCHANGED <<warnings, failed, ethrown, eexit>>
     \/ /\ ChildReadFails("ingredients", "steps_get")
        /\ UNCHANGED ingredientsRows
  /\ UNCHANGED <<rows, recipeIds, ri, stepsRows, csv>>
  /\ UNCHANGED <<impl, store, vvars, mvars, avars, pvars, rvars, wvars>>

\* the loop body, second half: the steps of recipeIds[ri], then the next id
StepsGet ==
  /\ epc = "steps_get"
  /\ LET next == IF ri < Len(recipeIds) THEN "ingredients_get" ELSE "ingredients_write"
     IN \/ /\ stepsRows' =
                LET rid == recipeIds[ri]
                    docs == Children(rid, "steps")
                IN pushAll(stepsRows, [i \in 1..Len(docs) |-> stepRow(rid, docs[i])])
           /\ epc' = next
           /\ UNCHANGED <<warnings, failed, ethrown, eexit>>
        \/ /\ ChildReadFails("steps", next)
           /\ UNCHANGED stepsRows
  /\ ri' = IF epc' = "ingredients_get" THEN ri + 1 ELSE ri
  /\ UNCHANGED <<rows, recipeIds, ingredientsRows, csv>>
  /\ UNCHANGED <<impl, store, vvars, mvars, avars, pvars, rvars, wvars>>

\* await writeRecords(records) to the named file, then the step after it
WriteCsv(at, name, records, next) ==
  /\ epc = at
  /\ \/ /\ csv' = [csv EXCEPT ![name] = <<CsvRows(records)>>]
        /\ wlog' = WriteLogged(wlog, impl, at, name, "end")
        /\ epc' = next
        /\ eexit' = IF next = "done" THEN <<0>> ELSE eexit
        /\ UNCHANGED ethrown
     \/ /\ Abort(at)
        /\ wlog' = WriteLogged(wlog, impl, at, name, "fail")
        /\ UNCHANGED csv

IngredientsWrite ==
  /\ WriteCsv("ingredients_write", IngredientsCsv, ingredientsRows, "steps_write")
  /\ UNCHANGED <<rows, recipeIds, ri, ingredientsRows, stepsRows, warnings, failed>>
  /\ UNCHANGED <<impl, store, vvars, mvars, avars, pvars, rvars>>

\* the steps rows written to the file of the ingredients
StepsWriteSameFile ==
  /\ WriteCsv("steps_write", IngredientsCsv, stepsRows, "interactions_get")
  /\ UNCHANGED <<rows, recipeIds, ri, ingredientsRows, stepsRows, warnings, failed>>
  /\ UNCHANGED <<impl, store, vvars, mvars, avars, pvars, rvars>>

StepsWrite ==
  /\ WriteCsv("steps_write", StepsCsv, stepsRows, "interactions_get")
  /\ UNCHANGED <<rows, recipeIds, ri, ingredientsRows, stepsRows, warnings, failed>>
  /\ UNCHANGED <<impl, store, vvars, mvars, avars, pvars, rvars>>

\* exportInteractions: await db.collection('interactions').get()
InteractionsGet ==
  /\ epc = "interactions_get"
  /\ \/ /\ rows' = pushAll(<<>>, [i \in 1..Len(store.interactions) |->
                                     interactionRow(impl, store.interactions[i])])
        /\ epc' = "interactions_write"
        /\ UNCHANGED <<failed, ethrown, eexit>>
     \/ /\ failed' = failed \cup {<<"interactions", EmptyStr>>}
        /\ Abort("interactions_get")
        /\ UNCHANGED rows
  /\ UNCHANGED <<recipeIds, ri, ingredientsRows, stepsRows, csv, warnings>>
  /\ UNCHANGED <<impl, store, vvars, mvars, avars, pvars, rvars, wvars>>

\* exportInteractions: await writeRecords(rows); part_000 is then complete
InteractionsWrite ==
  /\ WriteCsv("interactions_write", InteractionsCsv, rows,
              IF impl = "export_etl.js" THEN "users_get" ELSE "done")
  /\ UNCHANGED <<rows, recipeIds, ri, ingredientsRows, stepsRows, warnings, failed>>
  /\ UNCHANGED <<impl, store, vvars, mvars, avars, pvars, rvars>>

\* exportUsers (export_etl.js only): await db.collection('users').get()
UsersGet ==
  /\ epc = "users_get"
  /\ \/ /\ rows' = pushAll(<<>>, [i \in 1..Len(store.users) |-> userRow(store.users[i])])
        /\ epc' = "users_write"
        /\ UNCHANGED <<failed, ethrown, eexit>>
     \/ /\ failed' = failed \cup {<<"users", EmptyStr>>}
        /\ Abort("users_get")
        /\ UNCHANGED rows
  /\ UNCHANGED <<recipeIds, ri, ingredientsRows, stepsRows, csv, warnings>>
  /\ UNCHANGED <<impl, store, vvars, mvars, avars, pvars, rvars, wvars>>

\* exportUsers: await writeRecords(rows); run() returns
UsersWrite ==
  /\ WriteCsv("users_write", UsersCsv, rows, "done")
  /\ UNCHANGED <<rows, recipeIds, ri, ingredientsRows, stepsRows, warnings, failed>>
  /\ UNCHANGED <<impl, store, vvars, mvars, avars, pvars, rvars>>

NextExport ==
  \/ StartExport
  \/ RecipesGet
  \/ RecipesWrite
  \/ IngredientsGet
  \/ StepsGet
  \/ IngredientsWrite
  \/ StepsWrite
  \/ InteractionsGet
  \/ InteractionsWrite
  \/ UsersGet
  \/ UsersWrite

SpecExport == InitExport /\ [][NextExport]_vars

\* ------------------------------------------------------------------------
\* The row mapper on one recipe document
\* ------------------------------------------------------------------------
InitMap ==
  /\ impl \in Impls
  /\ doc \in MapDocs
  /\ mapped = <<>>
  /\ entity = "recipe"
  /\ findings = <<>>
  /\ store = EmptyStore
  /\ ExportIdle
  /\ ValidateOff
  /\ AnalysisIdle
  /\ PearsonIdle
  /\ ReadsIdle
  /\ wlog = <<>>

\* the callback of snapshot.forEach in exportRecipes, on doc
MapRecipe ==
  /\ mapped = <<>>
  /\ mapped' = <<mapRecipe(impl, doc)>>
  /\ UNCHANGED <<doc, entity, findings, evars, vvars, avars, pvars, rvars, wvars>>

NextMap == MapRecipe

SpecMap == InitMap /\ [][NextMap]_vars

\* ------------------------------------------------------------------------
\* The row mapper on one document of each entity type, the row mapped again,
\* and the row as validate_rule.js finds it in the written table
\* ------------------------------------------------------------------------
Entities == {"recipe", "ingredient", "step", "interaction", "user"}

\* the table of validate_rule.js that holds the rows of an entity type
TableOf(e) ==
  CASE e = "recipe" -> "recipes"
    [] e = "ingredient" -> "ingredients"
    [] e = "step" -> "steps"
    [] OTHER -> "interactions"

\* a document: its store-assigned id, the id of its parent recipe and its
\* fields, absent ones undefined
EntityDoc(id, parent, fields, given) ==
  [id |-> id, parent |-> parent,
   data |-> [f \in fields |-> IF f \in DOMAIN given THEN given[f] ELSE Undefined]]

\* the values a field that should hold a number may hold in a document
RawValues == {Undefined, Null, EmptyStr, Whole(2), Whole(0), Whole(7), Num(25), Num(-10), NaN,
              c_abc, c_n1, c_n2_5, c_neg1, c_blank, Arr(<<<<"1">>, <<"2">>>>)}

\* the values a created_at field may hold
TsValues == {Undefined, Null, EmptyStr, Num(0), Whole(7), c_abc, Str(c_iso),
             Timestamp(c_iso, FALSE), Timestamp(c_iso, TRUE),
             DateValue(c_iso, FALSE), DateValue(c_iso, TRUE), Obj(FALSE), Obj(TRUE)}

\* the values an explicit id field may hold
IdValues == {Undefined, Null, EmptyStr, c_ing9}

RecipeBase == [name |-> c_name, servings |-> Whole(2), difficulty |-> c_easy]

EntityDocs(e) ==
  CASE e = "recipe" ->
         {EntityDoc(c_r1, EmptyStr, RecipeFields, [servings |-> v] @@ RecipeBase) :
            v \in RawValues}
         \cup {EntityDoc(c_r1, EmptyStr, RecipeFields, [created_at |-> t] @@ RecipeBase) :
                 t \in TsValues}
         \cup {EntityDoc(c_r1, EmptyStr, RecipeFields,
                         [recipe_id |-> i, prep_time_min |-> p, total_time_min |-> t,
                          tags |-> g] @@ RecipeBase) :
                 i \in IdValues, p \in {Undefined, Whole(10), c_abc},
                 t \in {Undefined, Whole(45), c_abc},
                 g \in {Undefined, Arr(<<<<"a">>, <<"b">>>>), Str(<<"a", ",", "b">>)}}
    [] e = "ingredient" ->
         {EntityDoc(c_i1, c_r1, ChildFields,
                    [ingredient_id |-> i, name |-> c_salt, quantity |-> q, order |-> o]) :
            i \in IdValues, q \in RawValues, o \in {Undefined, Whole(1), c_abc}}
    [] e = "step" ->
         {EntityDoc(c_s1, c_r1, ChildFields, [step_id |-> i, text |-> c_mix, order |-> o]) :
            i \in IdValues, o \in RawValues}
    [] e = "interaction" ->
         {EntityDoc(c_x1, EmptyStr, InteractionFields,
                    [interaction_id |-> i, user_id |-> c_u1, recipe_id |-> c_r1,
                     type |-> c_rating, rating |-> v]) :
            i \in IdValues, v \in RawValues}
         \cup {EntityDoc(c_x1, EmptyStr, InteractionFields,
                         [user_id |-> c_u1, recipe_id |-> c_r1, type |-> c_like,
                          created_at |-> t]) : t \in TsValues}
    [] OTHER ->
         {EntityDoc(c_u1, EmptyStr, UserFields, [name |-> c_name, created_at |-> t]) :
            t \in TsValues}

\* the forEach callback of the export function of an entity type
mapRow(version, e, d) ==
  CASE e = "recipe" -> mapRecipe(version, d)
    [] e = "ingredient" -> ingredientRow(d.parent, d)
    [] e = "step" -> stepRow(d.parent, d)
    [] e = "interaction" -> interactionRow(version, d)
    [] OTHER -> userRow(d)

\* the document of the same id whose fields are a mapped row
RowAsDoc(d, row) == [id |-> d.id, parent |-> d.parent, data |-> row]

\* part_000 exports no users
InitRows ==
  /\ impl \in Impls
  /\ entity \in Entities
  /\ entity = "user" => impl = "export_etl.js"
  /\ doc \in EntityDocs(entity)
  /\ mapped = <<>>
  /\ findings = <<>>
  /\ store = EmptyStore
  /\ ExportIdle
  /\ ValidateOff
  /\ AnalysisIdle
  /\ PearsonIdle
  /\ ReadsIdle
  /\ wlog = <<>>

\* the forEach callback on doc
MapRow ==
  /\ mapped = <<>>
  /\ mapped' = <<mapRow(impl, entity, doc)>>
  /\ UNCHANGED <<doc, entity, findings, evars, vvars, avars, pvars, rvars, wvars>>

\* the forEach callback on the document made of the row mapped from doc
MapRowAgain ==
  /\ Len(mapped) = 1
  /\ mapped' = Append(mapped, mapRow(impl, entity, RowAsDoc(doc, mapped[1])))
  /\ UNCHANGED <<doc, entity, findings, evars, vvars, avars, pvars, rvars, wvars>>

\* the row written by writeRecords, read back by readCsv and checked by the
\* forEach callback of its table
ValidateWritten ==
  /\ mapped # <<>>
  /\ findings = <<>>
  /\ entity # "user"
  /\ findings' = <<validateRow([errors |-> <<>>, perRowErrors |-> <<>>], TableOf(entity),
                               CsvRows(<<mapped[1]>>)[1], 0).errors>>
  /\ UNCHANGED <<doc, entity, mapped, evars, vvars, avars, pvars, rvars, wvars>>

NextRows ==
  \/ MapRow
  \/ MapRowAgain
  \/ ValidateWritten

SpecRows == InitRows /\ [][NextRows]_vars

\* ------------------------------------------------------------------------
\* analysis.js: the statistics
\* ------------------------------------------------------------------------
\* the rational number num / den (den > 0)
Ratio(num, den) == [num |-> num, den |-> den]
\* a > b on rational numbers
RatioGreater(a, b) == a.num * b.den > b.num * a.den

\* the first n items of seq
Take(seq, n) == SubSeq(seq, 1, IF n < Len(seq) THEN n ELSE Len(seq))

\* the sum of the first k numbers of arr
RECURSIVE SumTo(_, _)
SumTo(arr, k) == IF k = 0 THEN 0 ELSE SumTo(arr, k - 1) + arr[k]

\* the sum over the count, 0 / 0 (NaN) for no number
meanUnguarded(arr) == Ratio(SumTo(arr, Len(arr)), Len(arr))

\* mean(arr): 0 for no number, else the sum over the count
mean(arr) ==
  IF Len(arr) = 0 THEN Ratio(0, 1) ELSE Ratio(SumTo(arr, Len(arr)), Len(arr))

\* the sum over the first k positions of (x[i] - mean(x)) * (y[i] - mean(y)),
\* times Len(x) * Len(y)
RECURSIVE CrossTo(_, _, _)
CrossTo(x, y, k) ==
  IF k = 0 THEN 0
  ELSE CrossTo(x, y, k - 1)
         + (Len(x) * x[k] - SumTo(x, Len(x))) * (Len(y) * y[k] - SumTo(y, Len(y)))

\* the correlation num / sqrt(denX * denY)
Corr(num, denX, denY) == [num |-> num, denX |-> denX, denY |-> denY]
ZeroCorr == Corr(0, 1, 1)

\* pearson without the test of the two denominators: 0 / 0 for a series that
\* does not vary
pearsonNoVarianceGuard(x, y) ==
  IF Len(x) = 0 \/ Len(x) # Len(y) THEN ZeroCorr
  ELSE Corr(CrossTo(x, y, Len(x)), CrossTo(x, x, Len(x)), CrossTo(y, y, Len(y)))

\* pearson(x, y)
pearson(x, y) ==
  IF Len(x) = 0 \/ Len(x) # Len(y) THEN ZeroCorr
  ELSE CHOOSE r \in
         {(IF d[2] = 0 \/ d[3] = 0 THEN ZeroCorr ELSE Corr(d[1], d[2], d[3])) :
            d \in {<<CrossTo(x, y, Len(x)), CrossTo(x, x, Len(x)), CrossTo(y, y, Len(y))>>}} :
         TRUE

\* A plain object used as a map: its own properties [key, value] in the
\* order in which they were created.
\* position of the property named key, 0 when there is none
PropPos(obj, key) ==
  IF \E i \in 1..Len(obj) : obj[i].key = key
  THEN CHOOSE i \in 1..Len(obj) : obj[i].key = key
  ELSE 0

\* obj[key] || 0
CountOf(obj, key) == IF PropPos(obj, key) = 0 THEN 0 ELSE obj[PropPos(obj, key)].value

\* obj[key] = (obj[key] || 0) + 1
Increment(obj, key) ==
  IF PropPos(obj, key) = 0 THEN Append(obj, [key |-> key, value |-> 1])
  ELSE [obj EXCEPT ![PropPos(obj, key)].value = @ + 1]

\* obj[key] = obj[key] || []; obj[key].push(v)
PushTo(obj, key, v) ==
  IF PropPos(obj, key) = 0 THEN Append(obj, [key |-> key, value |-> <<v>>])
  ELSE [obj EXCEPT ![PropPos(obj, key)].value = Append(@, v)]

\* the key is an array index: a canonical decimal numeral below 2^32 - 1
\* (numerals of up to nine digits; longer keys are taken as names)
IsArrayIndex(key) ==
  /\ key # <<>>
  /\ AllDigits(key)
  /\ Len(key) = 1 \/ key[1] # "0"
  /\ Len(key) <= 9

\* the properties at the positions in left, by ascending value of their keys
RECURSIVE IndexEntries(_, _)
IndexEntries(obj, left) ==
  IF left = {} THEN <<>>
  ELSE CHOOSE r \in
         {<<obj[i]>> \o IndexEntries(obj, left \ {i}) :
            i \in {j \in left : \A h \in left :
                     DigitsValue(obj[j].key) <= DigitsValue(obj[h].key)}} : TRUE

\* the properties among the first k whose key is not an array index, in
\* creation order
RECURSIVE NamedEntries(_, _)
NamedEntries(obj, k) ==
  IF k = 0 THEN <<>>
  ELSE IF IsArrayIndex(obj[k].key) THEN NamedEntries(obj, k - 1)
  ELSE Append(NamedEntries(obj, k - 1), obj[k])

\* Object.entries(obj): array-index keys first, in ascending numeric order,
\* then the other keys in creation order
Entries(obj) ==
  IndexEntries(obj, {i \in 1..Len(obj) : IsArrayIndex(obj[i].key)})
    \o NamedEntries(obj, Len(obj))

\* es.sort((a, b) => b[1] - a[1]) on the entries at the positions in left:
\* descending values, equal values in their order in es (the sort is stable)
RECURSIVE SortDesc(_, _)
SortDesc(es, left) ==
  IF left = {} THEN <<>>
  ELSE CHOOSE r \in
         {<<es[i]>> \o SortDesc(es, left \ {i}) :
            i \in {j \in left : \A h \in left :
                     es[j].value > es[h].value
                       \/ (es[j].value = es[h].value /\ j <= h)}} : TRUE

\* the same sort on entries whose values are rational numbers
RECURSIVE SortDescRatio(_, _)
SortDescRatio(es, left) ==
  IF left = {} THEN <<>>
  ELSE CHOOSE r \in
         {<<es[i]>> \o SortDescRatio(es, left \ {i}) :
            i \in {j \in left : \A h \in left :
                     RatioGreater(es[j].value, es[h].value)
                       \/ (~RatioGreater(es[h].value, es[j].value) /\ j <= h)}} : TRUE

\* values.sort((a, b) => a - b) on the numbers at the positions in left
RECURSIVE SortAsc(_, _)
SortAsc(values, left) ==
  IF left = {} THEN <<>>
  ELSE CHOOSE r \in
         {<<values[i]>> \o SortAsc(values, left \ {i}) :
            i \in {j \in left : \A h \in left :
                     values[j] < values[h] \/ (values[j] = values[h] /\ j <= h)}} : TRUE

\* the first n entries, unsorted
topNUnsorted(obj, n) ==
  CHOOSE r \in {Take(es, n) : es \in {Entries(obj)}} : TRUE

\* topN(obj, n)
topN(obj, n) ==
  CHOOSE r \in {Take(SortDesc(es, 1..Len(es)), n) : es \in {Entries(obj)}} : TRUE

\* topN(obj, n) of an object whose values are rational numbers
topNRatio(obj, n) ==
  CHOOSE r \in {Take(SortDescRatio(es, 1..Len(es)), n) : es \in {Entries(obj)}} : TRUE

\* the sizes of the lists of the report
TopIngredientsSize == 20
TopRecipesSize == 10

\* (ing.name || '').trim()
TrimmedName(v) == Trim(ToStringChars(OrElse(v, EmptyStr)))

\* the counts of the trimmed, non-empty names of the first k rows
RECURSIVE countNames(_, _)
countNames(ingredients, k) ==
  IF k = 0 THEN <<>>
  ELSE CHOOSE r \in
         {(IF TrimmedName(ingredients[k].name) = <<>> THEN acc
           ELSE Increment(acc, TrimmedName(ingredients[k].name))) :
            acc \in {countNames(ingredients, k - 1)}} : TRUE

\* lines 90-96: ingredientCounts
ingredientCounts(ingredients) == countNames(ingredients, Len(ingredients))

\* the rows among the first k whose recipe_id is one of ids
RECURSIVE rowsOfRecipes(_, _, _)
rowsOfRecipes(ingredients, ids, k) ==
  IF k = 0 THEN <<>>
  ELSE IF IsString(ingredients[k].recipe_id) /\ ingredients[k].recipe_id.s \in ids
  THEN Append(rowsOfRecipes(ingredients, ids, k - 1), ingredients[k])
  ELSE rowsOfRecipes(ingredients, ids, k - 1)

\* the counts of the names of the ingredient rows of the recipes in ids
ingredientCountsIn(ingredients, ids) ==
  CHOOSE r \in {ingredientCounts(rs) : rs \in {rowsOfRecipes(ingredients, ids, Len(ingredients))}} :
    TRUE

\* Number(v) || 0, in units of 1/Scale
UnitsOrZero(v) == IF Number(v).t = "number" THEN Number(v).n ELSE 0

\* recipes.map(r => Number(r.prep_time_min) || 0), k rows done
RECURSIVE timesOf(_, _, _)
timesOf(recipes, field, k) ==
  IF k = 0 THEN <<>>
  ELSE Append(timesOf(recipes, field, k - 1), UnitsOrZero(recipes[k][field]))

Unknown == <<"u", "n", "k", "n", "o", "w", "n">>
UNKNOWN == <<"U", "N", "K", "N", "O", "W", "N">>
TypeView == <<"v", "i", "e", "w">>
TypeLike == <<"l", "i", "k", "e">>
TypeCookAttempt == <<"c", "o", "o", "k", "_", "a", "t", "t", "e", "m", "p", "t">>
TypeRating == <<"r", "a", "t", "i", "n", "g">>

\* lines 108-111: difficultyDist, k rows done
RECURSIVE difficultyDist(_, _)
difficultyDist(recipes, k) ==
  IF k = 0 THEN <<>>
  ELSE CHOOSE r \in
         {Increment(acc, IF Normalized(recipes[k].difficulty) = <<>> THEN Unknown
                         ELSE Normalized(recipes[k].difficulty)) :
            acc \in {difficultyDist(recipes, k - 1)}} : TRUE

NoTallies == [viewsCount |-> <<>>, likesCount |-> <<>>, attemptsCount |-> <<>>,
              ratingsPerRecipe |-> <<>>, usersSet |-> {}]

\* the body of `for (const it of interactions)` on the tallies acc
tally(acc, it) ==
  CHOOSE r \in
    {(LET rid == ToStringChars(OrElse(it.recipe_id, Str(UNKNOWN)))
          type == Normalized(it.type)
          rating == IF it.rating # EmptyStr /\ ~IsNullish(it.rating)
                    THEN Number(it.rating) ELSE NaN
      IN IF type = TypeView THEN [a EXCEPT !.viewsCount = Increment(@, rid)]
         ELSE IF type = TypeLike THEN [a EXCEPT !.likesCount = Increment(@, rid)]
         ELSE IF type = TypeCookAttempt THEN [a EXCEPT !.attemptsCount = Increment(@, rid)]
         ELSE IF type = TypeRating /\ ~isNaN(rating)
         THEN [a EXCEPT !.ratingsPerRecipe = PushTo(@, rid, rating.n)]
         ELSE a) :
       a \in {IF Truthy(it.user_id)
              THEN [acc EXCEPT !.usersSet = @ \cup {ToStringChars(it.user_id)}]
              ELSE acc}} : TRUE

\* lines 120-141: the loop over the first k interactions
RECURSIVE tallies(_, _)
tallies(interactions, k) ==
  IF k = 0 THEN NoTallies
  ELSE CHOOSE r \in {tally(acc, interactions[k]) : acc \in {tallies(interactions, k - 1)}} : TRUE

\* avgRatingPerRecipe: the mean of each recipe's ratings, created in the
\* order of Object.entries(ratingsPerRecipe)
avgRatingPerRecipe(ratingsPerRecipe) ==
  CHOOSE r \in
    {[i \in 1..Len(es) |-> [key |-> es[i].key, value |-> mean(es[i].value)]] :
       es \in {Entries(ratingsPerRecipe)}} : TRUE

\* likesCount[r.recipe_id] || 0 of the first k recipes
RECURSIVE likesOf(_, _, _)
likesOf(recipes, likesCount, k) ==
  IF k = 0 THEN <<>>
  ELSE Append(likesOf(recipes, likesCount, k - 1),
              CountOf(likesCount, ToStringChars(recipes[k].recipe_id)))

\* Object.values(obj)
Values(obj) ==
  CHOOSE r \in {[i \in 1..Len(es) |-> es[i].value] : es \in {Entries(obj)}} : TRUE

\* the middle value of the sorted like counts, the upper one of two
medianUpper(likesCount) ==
  CHOOSE r \in
    {(IF Len(sorted) = 0 THEN Ratio(0, 1)
      ELSE Ratio(sorted[(Len(sorted) \div 2) + 1], 1)) :
       sorted \in {SortAsc(Values(likesCount), 1..Len(likesCount))}} : TRUE

\* lines 174-180: medianLikes
medianLikes(likesCount) ==
  CHOOSE r \in
    {(IF Len(sorted) = 0 THEN Ratio(0, 1)
      ELSE IF Len(sorted) % 2 = 0
      THEN Ratio(sorted[Len(sorted) \div 2] + sorted[(Len(sorted) \div 2) + 1], 2)
      ELSE Ratio(sorted[(Len(sorted) \div 2) + 1], 1)) :
       sorted \in {SortAsc(Values(likesCount), 1..Len(likesCount))}} : TRUE

\* highEngRecipeIds: the recipes with more likes than the median
highEngRecipeIds(likesCount) ==
  {likesCount[i].key : i \in {j \in 1..Len(likesCount) :
     RatioGreater(Ratio(likesCount[j].value, 1), medianLikes(likesCount))}}

\* the keys of a top list
KeysOf(top) == {top[i].key : i \in 1..Len(top)}

\* lines 64-183: what main computes from the four tables
analyze(tbls) ==
  CHOOSE r \in
    {[totalRecipes |-> Len(tbls["recipes"]),
      totalIngredients |-> Len(tbls["ingredients"]),
      totalSteps |-> Len(tbls["steps"]),
      totalInteractions |-> Len(tbls["interactions"]),
      topIngredients |-> topN(ingredientCounts(tbls["ingredients"]), TopIngredientsSize),
      avgPrep |-> mean(timesOf(tbls["recipes"], "prep_time_min", Len(tbls["recipes"]))),
      avgCook |-> mean(timesOf(tbls["recipes"], "cook_time_min", Len(tbls["recipes"]))),
      difficultyDist |-> Entries(difficultyDist(tbls["recipes"], Len(tbls["recipes"]))),
      topViewed |-> topN(t.viewsCount, TopRecipesSize),
      topLiked |-> topN(t.likesCount, TopRecipesSize),
      topAttempts |-> topN(t.attemptsCount, TopRecipesSize),
      topAvgRated |-> topNRatio(avgRatingPerRecipe(t.ratingsPerRecipe), TopRecipesSize),
      prepLikesCorr |->
        pearson(timesOf(tbls["recipes"], "prep_time_min", Len(tbls["recipes"])),
                likesOf(tbls["recipes"], t.likesCount, Len(tbls["recipes"]))),
      topIngInTopLiked |->
        topN(ingredientCountsIn(tbls["ingredients"],
                                KeysOf(topN(t.likesCount, TopRecipesSize))),
             TopIngredientsSize),
      medianLikes |-> medianLikes(t.likesCount),
      highEngRecipeIds |-> highEngRecipeIds(t.likesCount),
      topIngHighEng |->
        topN(ingredientCountsIn(tbls["ingredients"], highEngRecipeIds(t.likesCount)),
             TopIngredientsSize),
      totalUsers |-> Cardinality(t.usersSet)] :
       t \in {tallies(tbls["interactions"], Len(tbls["interactions"]))}} : TRUE

\* ------------------------------------------------------------------------
\* analysis.js: the run
\* ------------------------------------------------------------------------
\* readCsv(filePath) of analysis.js: a missing file resolves to no rows
readCsvAnalysis(file) == IF file.exists THEN file.rows ELSE <<>>

\* process.exit(code)
AnalysisExit(code) == apc' = "exited" /\ aexit' = <<code>>

\* lines 13-16: without output/ the script exits before main
AnalysisCheckOutputDir ==
  /\ apc = "start"
  /\ IF outputDirExists
     THEN apc' = "reading" /\ UNCHANGED aexit
     ELSE AnalysisExit(1)
  /\ UNCHANGED <<atables, stats, areport, athrown>>
  /\ UNCHANGED <<vvars, evars, mvars, pvars, rvars, wvars>>

\* the four readCsv promises resolve
AnalysisReadResolve ==
  /\ apc = "reading"
  /\ atables' = [t \in TableSet |-> readCsvAnalysis(files[t])]
  /\ apc' = "computing"
  /\ UNCHANGED <<stats, areport, athrown, aexit>>
  /\ UNCHANGED <<vvars, evars, mvars, pvars, rvars, wvars>>

\* a read stream emits 'error': Promise.all rejects, the catch exits
AnalysisReadReject ==
  /\ apc = "reading"
  /\ \E t \in TableSet : files[t].exists
  /\ athrown' = "read"
  /\ AnalysisExit(1)
  /\ UNCHANGED <<atables, stats, areport>>
  /\ UNCHANGED <<vvars, evars, mvars, pvars, rvars, wvars>>

\* lines 64-183: the statistics
Compute ==
  /\ apc = "computing"
  /\ stats' = <<analyze(atables)>>
  /\ apc' = "writing"
  /\ UNCHANGED <<atables, areport, athrown, aexit>>
  /\ UNCHANGED <<vvars, evars, mvars, pvars, rvars, wvars>>

\* fs.writeFileSync(REPORT_PATH, reportText), then main returns; a write
\* that throws is caught and the script exits with 1
AnalysisWriteReport ==
  /\ apc = "writing"
  /\ \/ /\ areport' = stats
        /\ wlog' = WriteLogged(wlog, "analysis.js", "writing", ReportTxt, "end")
        /\ apc' = "exited"
        /\ aexit' = <<0>>
        /\ UNCHANGED athrown
     \/ /\ athrown' = "write"
        /\ wlog' = WriteLogged(wlog, "analysis.js", "writing", ReportTxt, "fail")
        /\ AnalysisExit(1)
        /\ UNCHANGED areport
  /\ UNCHANGED <<atables, stats>>
  /\ UNCHANGED <<vvars, evars, mvars, pvars, rvars>>

\* Inputs of an analytics run
c_view == Str(TypeView)
c_cook == Str(TypeCookAttempt)
c_n20 == Str(<<"2", "0">>)
c_saltPadded == Str(<<" ", "s", "a", "l", "t", " ">>)
c_sugar == Str(<<"s", "u", "g", "a", "r">>)

\* the table t holds the file f, the other tables no row
Only(t, f) == [u \in TableSet |-> IF u = t THEN f ELSE File(<<>>)]

\* ingredient rows whose names are equal, equal after trimming, different,
\* empty after trimming, or numerals
NamedIngredientRows ==
  [recipe_id : {c_r1}, ingredient_id : {c_i1},
   name : {c_salt, c_saltPadded, c_sugar, c_blank, c_n7, c_n2}, quantity : {c_n1}]
    \cup [recipe_id : {c_r2}, ingredient_id : {c_i1}, name : {c_salt}, quantity : {c_n1}]

\* more names than the top list holds: x1 .. x21 once each, then x21 again
ManyNames == TopIngredientsSize + 1
ManyIngredientRows ==
  [i \in 1..(ManyNames + 1) |->
     [recipe_id |-> c_r1, ingredient_id |-> c_i1, quantity |-> c_n1,
      name |-> Str(<<"x">> \o NatToChars(IF i > ManyNames THEN ManyNames ELSE i))]]

\* interactions of the three counted types on recipes named by a word or a numeral
CountedInteractionRows ==
  [interaction_id : {c_x1}, user_id : {c_u1}, recipe_id : {c_r1, c_n2, c_n1},
   type : {c_view, c_like, c_cook}, rating : {EmptyStr}]

LikeRows ==
  [interaction_id : {c_x1}, user_id : {c_u1}, recipe_id : {c_r1, c_r2},
   type : {c_like}, rating : {EmptyStr}]

\* likes on four recipes: 1 on r1, 3 on r2, 5 on r3, 7 on r4
c_r4 == Str(<<"r", "4">>)
LikesOneThreeFiveSeven ==
  [i \in 1..16 |->
     [interaction_id |-> c_x1, user_id |-> c_u1, type |-> c_like, rating |-> EmptyStr,
      recipe_id |-> IF i <= 1 THEN c_r1 ELSE IF i <= 4 THEN c_r2
                    ELSE IF i <= 9 THEN c_r3 ELSE c_r4]]

TimedRecipeRows ==
  [recipe_id : {c_r1, c_r2}, name : {c_name}, servings : {c_n2},
   prep_time_min : {c_n10, c_n20, c_abc}, cook_time_min : {c_n5},
   difficulty : {c_easy}]

InitAnalysis ==
  /\ outputDirExists \in BOOLEAN
  /\ \/ \E n \in 0..MaxRows : \E g \in [1..n -> NamedIngredientRows] :
        \E f \in FilesOf(g) : files = Only("ingredients", f)
     \/ files = Only("ingredients", File(ManyIngredientRows))
     \/ \E n \in 0..MaxRows : \E x \in [1..n -> CountedInteractionRows] :
        \E f \in FilesOf(x) : files = Only("interactions", f)
     \/ \E x \in AllInteractionRows : files = Only("interactions", File(<<x>>))
     \/ files = Only("interactions", File(LikesOneThreeFiveSeven))
     \/ \E r \in AllRecipeRows : files = Only("recipes", File(<<r>>))
     \/ \E n \in 0..MaxRecipes : \E r \in [1..n -> TimedRecipeRows] :
        \E m \in 0..MaxRows : \E x \in [1..m -> LikeRows] :
          files = [Only("recipes", File(r)) EXCEPT !["interactions"] = File(x)]
  /\ ValidateIdle
  /\ AnalysisIdle
  /\ ExportOff
  /\ MapIdle
  /\ PearsonIdle
  /\ ReadsIdle
  /\ wlog = <<>>

NextAnalysis ==
  \/ AnalysisCheckOutputDir
  \/ AnalysisReadResolve
  \/ AnalysisReadReject
  \/ Compute
  \/ AnalysisWriteReport

SpecAnalysis == InitAnalysis /\ [][NextAnalysis]_vars

\* ------------------------------------------------------------------------
\* pearson on its own, and within a run of analysis.js
\* ------------------------------------------------------------------------
MaxSeries == 3
SeriesValues == {2, 4, 10, 20}
\* the arrays of at most MaxSeries numbers
SeriesSet == UNION {[1..n -> SeriesValues] : n \in 0..MaxSeries}

\* two recipes with prep 10 and 20, liked 2 and 4 times
PrepTenTwenty ==
  <<[recipe_id |-> c_r1, name |-> c_name, servings |-> c_n2, prep_time_min |-> c_n10,
     cook_time_min |-> c_n5, difficulty |-> c_easy],
    [recipe_id |-> c_r2, name |-> c_name, servings |-> c_n2, prep_time_min |-> c_n20,
     cook_time_min |-> c_n5, difficulty |-> c_easy]>>
LikesTwoFour ==
  [i \in 1..6 |->
     [interaction_id |-> c_x1, user_id |-> c_u1, type |-> c_like, rating |-> EmptyStr,
      recipe_id |-> IF i <= 2 THEN c_r1 ELSE c_r2]]

\* either two arrays for pearson and no output/, or recipes and likes for a run
InitPearson ==
  /\ \/ /\ series \in SeriesSet \X SeriesSet
        /\ outputDirExists = FALSE
        /\ files = [t \in TableSet |-> MissingFile]
     \/ /\ series = <<<<>>, <<>>>>
        /\ outputDirExists = TRUE
        /\ \/ \E n \in 0..MaxRecipes : \E r \in [1..n -> TimedRecipeRows] :
              \E m \in 0..MaxRows : \E x \in [1..m -> LikeRows] :
                files = [Only("recipes", File(r)) EXCEPT !["interactions"] = File(x)]
           \/ files = [Only("recipes", File(PrepTenTwenty))
                         EXCEPT !["interactions"] = File(LikesTwoFour)]
  /\ corr = <<>>
  /\ ValidateIdle
  /\ AnalysisIdle
  /\ ExportOff
  /\ MapIdle
  /\ ReadsIdle
  /\ wlog = <<>>

\* pearson(x, y) is called on the two arrays
Correlate ==
  /\ corr = <<>>
  /\ corr' = <<pearson(series[1], series[2])>>
  /\ UNCHANGED series
  /\ UNCHANGED <<vvars, evars, mvars, avars, rvars, wvars>>

NextPearson ==
  \/ Correlate
  \/ AnalysisCheckOutputDir
  \/ AnalysisReadResolve
  \/ AnalysisReadReject
  \/ Compute
  \/ AnalysisWriteReport

SpecPearson == InitPearson /\ [][NextPearson]_vars

\* ------------------------------------------------------------------------
\* validate_rule.js and analysis.js run on the same output directory
\* ------------------------------------------------------------------------
\* a row of table t without violation
ValidRow(t) ==
  CASE t = "recipes" ->
         [recipe_id |-> c_r1, name |-> c_name, servings |-> c_n2, prep_time_min |-> c_n10,
          cook_time_min |-> c_n5, difficulty |-> c_easy]
    [] t = "ingredients" ->
         [recipe_id |-> c_r1, ingredient_id |-> c_i1, name |-> c_salt, quantity |-> c_n2_5]
    [] t = "steps" -> [recipe_id |-> c_r1, step_id |-> c_s1, text |-> c_mix, order |-> c_n1]
    [] OTHER ->
         [interaction_id |-> c_x1, user_id |-> c_u1, recipe_id |-> c_r1, type |-> c_like,
          rating |-> EmptyStr]

\* each table file is missing, has no row, or has one row
InitStages ==
  /\ outputDirExists \in BOOLEAN
  /\ files \in [TableSet -> {MissingFile, File(<<>>)} \cup {File(<<ValidRow(t)>>) : t \in TableSet}]
  /\ \A t \in TableSet : files[t].rows # <<>> => files[t].rows = <<ValidRow(t)>>
  /\ ValidateIdle
  /\ AnalysisIdle
  /\ ExportOff
  /\ MapIdle
  /\ PearsonIdle
  /\ ReadsIdle
  /\ wlog = <<>>

NextStages ==
  \/ CheckOutputDir
  \/ ReadResolve
  \/ ReadReject
  \/ ValidateRows
  \/ WriteInvalid
  \/ WriteSummary
  \/ WriteReport
  \/ AnalysisCheckOutputDir
  \/ AnalysisReadResolve
  \/ AnalysisReadReject
  \/ Compute
  \/ AnalysisWriteReport

SpecStages == InitStages /\ [][NextStages]_vars

\* ------------------------------------------------------------------------
\* readCsv event by event: the four streams of validate_rule.js and of
\* analysis.js
\* ------------------------------------------------------------------------
MaxReadRows == 2
\* a second row of table t
OtherRow(t) == [ValidRow(t) EXCEPT !.recipe_id = c_r2]
\* the first n rows of the file of table t
RowsOfFile(t, n) == SubSeq(<<ValidRow(t), OtherRow(t), ValidRow(t)>>, 1, n)

\* each table file holds up to two rows, MaxReadRows in all; the files
\* without a row are all there or all missing
InitReads ==
  /\ outputDirExists \in BOOLEAN
  /\ \E n \in [TableSet -> 0..2] : \E missing \in {{}, {t \in TableSet : n[t] = 0}} :
       /\ n["recipes"] + n["ingredients"] + n["steps"] + n["interactions"] <= MaxReadRows
       /\ files = [t \in TableSet |->
                     IF t \in missing THEN MissingFile ELSE File(RowsOfFile(t, n[t]))]
  /\ ValidateIdle
  /\ AnalysisIdle
  /\ ExportOff
  /\ MapIdle
  /\ PearsonIdle
  /\ ReadsIdle
  /\ wlog = <<>>

\* where the script is
PcOf(sc) == IF sc = "validate_rule.js" THEN vpc ELSE apc

\* the script waits for its four reads
Reading(sc) == PcOf(sc) = "reading" /\ \A t \in TableSet : streams[sc][t].state # "none"

\* Promise.all([readCsv(...), ...]): the four executors run one after the
\* other; a missing file resolves at once with no row, any other file gets a
\* stream with its own rows array
OpenStreams ==
  /\ \E sc \in Scripts :
       /\ PcOf(sc) = "reading"
       /\ \A t \in TableSet : streams[sc][t].state = "none"
       /\ streams' = [streams EXCEPT ![sc] =
            [t \in TableSet |->
               [state |-> IF files[t].exists THEN "open" ELSE "resolved",
                pos |-> 0, rows |-> <<>>]]]
  /\ UNCHANGED <<vvars, evars, mvars, avars, pvars, wvars>>

\* every stream of the script pushing to one rows array
StreamDataShared ==
  /\ \E sc \in Scripts : \E t \in TableSet :
       /\ Reading(sc)
       /\ streams[sc][t].state = "open"
       /\ streams[sc][t].pos < Len(files[t].rows)
       /\ streams' = [streams EXCEPT ![sc] =
            [u \in TableSet |->
               [state |-> streams[sc][u].state,
                pos |-> IF u = t THEN streams[sc][u].pos + 1 ELSE streams[sc][u].pos,
                rows |-> Append(streams[sc][u].rows,
                                files[t].rows[streams[sc][t].pos + 1])]]]
  /\ UNCHANGED <<vvars, evars, mvars, avars, pvars, wvars>>

\* .on('data', (data) => rows.push(data)): the next row of the file of the
\* stream is pushed to the rows array of that call of readCsv
StreamData ==
  /\ \E sc \in Scripts : \E t \in TableSet :
       /\ Reading(sc)
       /\ streams[sc][t].state = "open"
       /\ streams[sc][t].pos < Len(files[t].rows)
       /\ streams' = [streams EXCEPT
            ![sc][t].pos = @ + 1,
            ![sc][t].rows = Append(@, files[t].rows[streams[sc][t].pos + 1])]
  /\ UNCHANGED <<vvars, evars, mvars, avars, pvars, wvars>>

\* .on('end', () => resolve(rows)): after the last row
StreamEnd ==
  /\ \E sc \in Scripts : \E t \in TableSet :
       /\ Reading(sc)
       /\ streams[sc][t].state = "open"
       /\ streams[sc][t].pos = Len(files[t].rows)
       /\ streams' = [streams EXCEPT ![sc][t].state = "resolved"]
  /\ UNCHANGED <<vvars, evars, mvars, avars, pvars, wvars>>

\* a stream of validate_rule.js emits 'error' at any moment before its end:
\* reject(err) rejects Promise.all and the catch exits with 1 (an 'error' of
\* the file stream itself has no listener and ends the process with 1 too)
ValidateStreamError ==
  /\ Reading("validate_rule.js")
  /\ \E t \in TableSet :
       /\ streams["validate_rule.js"][t].state = "open"
       /\ streams' = [streams EXCEPT !["validate_rule.js"][t].state = "failed"]
  /\ thrown' = "read"
  /\ Exit(1)
  /\ UNCHANGED <<outputDirExists, files, tables, errors, perRowErrors, validSummary,
                 report, written, partial, content>>
  /\ UNCHANGED <<evars, mvars, avars, pvars, wvars>>

\* the same in analysis.js
AnalysisStreamError ==
  /\ Reading("analysis.js")
  /\ \E t \in TableSet :
       /\ streams["analysis.js"][t].state = "open"
       /\ streams' = [streams EXCEPT !["analysis.js"][t].state = "failed"]
  /\ athrown' = "read"
  /\ AnalysisExit(1)
  /\ UNCHANGED <<atables, stats, areport>>
  /\ UNCHANGED <<vvars, evars, mvars, pvars, wvars>>

\* all four promises are resolved: await Promise.all(...) returns the four
\* rows arrays, in the order of the calls
ValidateAllRead ==
  /\ Reading("validate_rule.js")
  /\ \A t \in TableSet : streams["validate_rule.js"][t].state = "resolved"
  /\ tables' = [t \in TableSet |-> streams["validate_rule.js"][t].rows]
  /\ vpc' = "validating"
  /\ UNCHANGED <<outputDirExists, files, errors, perRowErrors, validSummary, report,
                 written, partial, content, thrown, exitCode>>
  /\ UNCHANGED <<evars, mvars, avars, pvars, rvars, wvars>>

AnalysisAllRead ==
  /\ Reading("analysis.js")
  /\ \A t \in TableSet : streams["analysis.js"][t].state = "resolved"
  /\ atables' = [t \in TableSet |-> streams["analysis.js"][t].rows]
  /\ apc' = "computing"
  /\ UNCHANGED <<stats, areport, athrown, aexit>>
  /\ UNCHANGED <<vvars, evars, mvars, pvars, rvars, wvars>>

NextReads ==
  \/ CheckOutputDir
  \/ AnalysisCheckOutputDir
  \/ OpenStreams
  \/ StreamData
  \/ StreamEnd
  \/ ValidateStreamError
  \/ AnalysisStreamError
  \/ ValidateAllRead
  \/ AnalysisAllRead
  \/ ValidateRows
  \/ Compute

SpecReads == InitReads /\ [][NextReads]_vars

\* ------------------------------------------------------------------------
\* The writes of an export run and of a validation run
\* ------------------------------------------------------------------------
\* either an export of some store with no output/ for the validation, or an
\* export of an empty store with table files for the validation
InitWrites ==
  /\ \/ /\ impl \in Impls
        /\ store \in Stores
        /\ outputDirExists = FALSE
        /\ files = [t \in TableSet |-> MissingFile]
     \/ /\ impl = "export_etl.js"
        /\ store = EmptyStore
        /\ outputDirExists = TRUE
        /\ \/ files = [t \in TableSet |-> MissingFile]
           \/ \E u \in TableSet :
                files = [t \in TableSet |-> IF t = u THEN File(<<ValidRow(t)>>)
                                                      ELSE File(<<>>)]
  /\ ExportIdle
  /\ ValidateIdle
  /\ AnalysisIdle
  /\ MapIdle
  /\ PearsonIdle
  /\ ReadsIdle
  /\ wlog = <<>>

NextWrites ==
  \/ StartExport
  \/ RecipesGet
  \/ RecipesWrite
  \/ IngredientsGet
  \/ StepsGet
  \/ IngredientsWrite
  \/ StepsWrite
  \/ InteractionsGet
  \/ InteractionsWrite
  \/ UsersGet
  \/ UsersWrite
  \/ CheckOutputDir
  \/ ReadResolve
  \/ ReadReject
  \/ ValidateRows
  \/ WriteInvalid
  \/ WriteSummary
  \/ WriteReport

SpecWrites == InitWrites /\ [][NextWrites]_vars

\* ------------------------------------------------------------------------
\* Properties of the validation run
\* ------------------------------------------------------------------------
\* the rows have been checked
Validated ==
  \/ vpc \in {"write_invalid", "write_summary", "write_report"}
  \/ vpc = "exited" /\ outputDirExists /\ thrown # "read"

\* positions in the flat list of the messages of row idx of table t
FlatOf(t, idx) ==
  {i \in 1..Len(errors) : errors[i].table = t /\ errors[i].row_index = idx}

\* zero-based indexes of the rows of table t with at least one finding
RowsWithFinding(t) ==
  {idx \in 0..(Len(tables[t]) - 1) : FlatOf(t, idx) # {}}

SummaryHolds(summary) ==
  /\ Len(summary) = Len(TableNames)
  /\ \A i \in 1..Len(summary) :
       /\ summary[i].table = TableNames[i]
       /\ summary[i].total_count = Len(files[TableNames[i]].rows)
       /\ summary[i].valid_count + Cardinality(RowsWithFinding(TableNames[i]))
            = summary[i].total_count

\* C1: once the summary of a run is computed, and in the summary file and the
\* report once written, for each of the four tables valid_count plus the number
\* of distinct rows of that table with at least one finding equals total_count,
\* the number of rows of the table.
C1_ValidPlusInvalidIsTotal ==
  /\ vpc \in {"write_summary", "write_report"} => SummaryHolds(validSummary)
  /\ SummaryCsv \in written => SummaryHolds(content.summary)
  /\ ReportJson \in written =>
       \A t \in TableSet :
         content.report.valid_counts[t] + Cardinality(RowsWithFinding(t))
           = content.report.totals[t]

\* a finished run over a table holding both a row without finding and a row
\* with one
C1_Witness ==
  /\ exitCode = <<0>>
  /\ \E i \in 1..Len(content.summary) :
       /\ content.summary[i].valid_count >= 1
       /\ content.summary[i].valid_count < content.summary[i].total_count

\* --- the rule sets of section 4.4, stated on the raw field values ---
NonEmptyTrimmed(v) == v.t = "string" /\ Trim(v.s) # <<>>
\* the field parses as a number: present, not empty, and Number() is not NaN
Parses(v) == v.t = "string" /\ v.s # <<>> /\ Number(v).t = "number"
NumberAtLeast(v, k) == Parses(v) /\ Number(v).n >= k * Scale
InSet(v, set) == v.t = "string" /\ ToLowerCase(Trim(v.s)) \in set
IsPresent(v) == v.t = "string" /\ v.s # <<>>

RuleNames(t) ==
  CASE t = "recipes" -> {"recipe_id", "name", "servings", "prep_time_min",
                         "cook_time_min", "difficulty"}
    [] t = "ingredients" -> {"recipe_id", "name", "quantity"}
    [] t = "steps" -> {"recipe_id", "text", "order"}
    [] OTHER -> {"interaction_id", "user_id", "recipe_id", "type", "rating"}

\* row violates the rule of table t on the named field
Violates(t, rule, row) ==
  CASE rule \in {"recipe_id", "name", "text", "interaction_id", "user_id"} ->
         ~NonEmptyTrimmed(row[rule])
    [] rule = "servings" -> ~NumberAtLeast(row.servings, 1)
    [] rule \in {"prep_time_min", "cook_time_min"} ->
         Parses(row[rule]) /\ ~NumberAtLeast(row[rule], 0)
    [] rule = "difficulty" -> ~InSet(row.difficulty, validDifficulties)
    [] rule = "quantity" -> IsPresent(row.quantity) /\ ~NumberAtLeast(row.quantity, 0)
    [] rule = "order" ->
         ~(NumberAtLeast(row.order, 1) /\ Number(row.order).n % Scale = 0)
    [] rule = "type" -> ~InSet(row.type, validInteractionTypes)
    [] OTHER -> \* rating
         IsPresent(row.rating)
           /\ ~(NumberAtLeast(row.rating, 0) /\ Number(row.rating).n <= 5 * Scale)

\* the message texts by which the rule of table t on the named field reports
RuleTexts(t, rule) ==
  CASE rule = "recipe_id" -> {"recipe_id is missing or empty"}
    [] rule = "name" -> {"name is missing or empty", "ingredient name is missing or empty"}
    [] rule = "servings" -> {"servings must be a number >= 1"}
    [] rule = "prep_time_min" -> {"prep_time_min must be >= 0"}
    [] rule = "cook_time_min" -> {"cook_time_min must be >= 0"}
    [] rule = "difficulty" -> {"difficulty is missing or empty", "invalid difficulty"}
    [] rule = "quantity" -> {"quantity must be numeric and >= 0"}
    [] rule = "text" -> {"step text is missing or empty"}
    [] rule = "order" -> {"order must be an integer >= 1"}
    [] rule = "interaction_id" -> {"interaction_id is missing or empty"}
    [] rule = "user_id" -> {"user_id is missing or empty"}
    [] rule = "type" -> {"invalid or missing type"}
    [] OTHER -> {"rating must be numeric 0-5", "rating out of range 0-5"}

ViolatedRules(t, row) == {rule \in RuleNames(t) : Violates(t, rule, row)}

\* the grouped records of row idx of table t
GroupedOf(records, t, idx) ==
  {i \in 1..Len(records) : records[i].table = t /\ records[i].row_index = idx}

\* C2: validation does not stop at a row's first violation: once the rows are
\* checked, every rule a row violates has its own message among the row's
\* messages in the flat list, a rule it does not violate has none, and a row
\* violating k rules has exactly k messages in the flat list and k in its
\* grouped record.
C2_NoShortCircuit ==
  Validated =>
    \A t \in TableSet : \A idx \in 0..(Len(tables[t]) - 1) :
      LET row == tables[t][idx + 1]
          violated == ViolatedRules(t, row)
          k == Cardinality(violated)
      IN /\ \A rule \in RuleNames(t) :
              rule \in violated <=>
                \E i \in FlatOf(t, idx) : errors[i].error.text \in RuleTexts(t, rule)
         /\ Cardinality(FlatOf(t, idx)) = k
         /\ \A g \in GroupedOf(perRowErrors, t, idx) : Len(perRowErrors[g].errors) = k
         /\ k > 0 => GroupedOf(perRowErrors, t, idx) # {}

\* a checked row that violates at least three rules at once
C2_Witness ==
  /\ Validated
  /\ \E t \in TableSet : \E idx \in 0..(Len(tables[t]) - 1) :
       /\ Cardinality(ViolatedRules(t, tables[t][idx + 1])) >= 3
       /\ Cardinality(FlatOf(t, idx)) >= 3

\* the messages of row idx of table t, in the order of the flat list
RECURSIVE MessagesOf(_, _, _)
MessagesOf(t, idx, k) ==
  IF k = 0 THEN <<>>
  ELSE IF errors[k].table = t /\ errors[k].row_index = idx
       THEN Append(MessagesOf(t, idx, k - 1), errors[k].error)
       ELSE MessagesOf(t, idx, k - 1)

\* the (table, row_index) pairs with at least one entry in the flat list
PairsWithFinding == {<<errors[i].table, errors[i].row_index>> : i \in 1..Len(errors)}

GroupedHolds(rep) ==
  /\ \A p \in PairsWithFinding :
       Cardinality(GroupedOf(rep.invalid_records, p[1], p[2])) = 1
  /\ \A i \in 1..Len(rep.invalid_records) :
       LET r == rep.invalid_records[i]
       IN /\ <<r.table, r.row_index>> \in PairsWithFinding
          /\ r.errors = MessagesOf(r.table, r.row_index, Len(errors))
          /\ r.errors # <<>>
  /\ rep.invalid_count = Cardinality(PairsWithFinding)

\* C3: the grouped finding list of the report holds exactly one record per
\* (table, row_index) pair with at least one violation and none for a row
\* without; each record lists all the messages of its row; invalid_count is
\* the number of those pairs over the four tables.
C3_OneRecordPerInvalidRow ==
  /\ vpc = "write_report" => GroupedHolds(report)
  /\ ReportJson \in written => GroupedHolds(content.report)

\* a written report over two tables that both have a finding at the same row
\* index, one of the rows with several messages
C3_Witness ==
  /\ ReportJson \in written
  /\ \E i, j \in 1..Len(content.report.invalid_records) :
       /\ content.report.invalid_records[i].table # content.report.invalid_records[j].table
       /\ content.report.invalid_records[i].row_index
            = content.report.invalid_records[j].row_index
       /\ Len(content.report.invalid_records[i].errors) >= 2

\* C4 as stated: an exception anywhere in the run ends it with a non-zero exit
\* and, at the end of any run, all three artifacts have been written or none
\* (only completely written artifacts are counted).
C4_AllOrNothing ==
  vpc = "exited" =>
    /\ thrown # "none" => exitCode = <<1>>
    /\ written = Artifacts \/ written = {}

\* the positions of the script in program order
PcOrder == <<"start", "reading", "validating", "write_invalid", "write_summary",
             "write_report", "exited">>
Rank(pc) == CHOOSE i \in 1..Len(PcOrder) : PcOrder[i] = pc

\* C6: a run always terminates (until it has exited a step is enabled, and
\* every step moves the script forward in program order), and a run whose
\* reads and writes all succeed ends with exit code 0 and all three artifacts
\* written, the flat list holding exactly the findings, whatever their number.
C6_FindingsNeverFatal ==
  /\ [](vpc # "exited" => ENABLED NextValidate)
  /\ [][Rank(vpc') > Rank(vpc)]_vars
  /\ [](vpc = "exited" /\ outputDirExists /\ thrown = "none" =>
          exitCode = <<0>> /\ written = Artifacts /\ content.invalid = errors)

\* a successful exit of a run in which every row is invalid
C6_Witness ==
  /\ exitCode = <<0>>
  /\ written = Artifacts
  /\ \E t \in TableSet : Len(tables[t]) >= 2
  /\ \A t \in TableSet : Cardinality(RowsWithFinding(t)) = Len(tables[t])


\* ------------------------------------------------------------------------
\* Properties of the export run
\* ------------------------------------------------------------------------
\* the read of a top-level collection was rejected
TopLevelReadFailed(collection) == <<collection, EmptyStr>> \in failed
\* the read of a sub-collection of some recipe was rejected
ChildReadFailed == \E p \in failed : p[1] \in {"ingredients", "steps"}

\* C5 as stated: when the read of the recipes or of the interactions collection
\* fails, the run ends with a non-zero exit and none of the recipe, ingredients,
\* steps and interactions files has been written by it.
C5_TopLevelReadFailureLeavesNoFile ==
  TopLevelReadFailed("recipes") \/ TopLevelReadFailed("interactions") =>
    /\ eexit = <<1>>
    /\ \A f \in {RecipeCsv, IngredientsCsv, StepsCsv, InteractionsCsv} : csv[f] = <<>>

\* the rows of one child kind expected from the first k recipes of the store:
\* recipe by recipe in store order, within a recipe in listing order, a recipe
\* whose read of that kind failed giving none
RECURSIVE ExpectedChildRows(_, _)
ExpectedChildRows(kind, k) ==
  IF k = 0 THEN <<>>
  ELSE LET r == store.recipes[k]
           docs == IF kind = "ingredients" THEN r.ingredients ELSE r.steps
           own == IF <<kind, r.id>> \in failed THEN <<>>
                  ELSE [i \in 1..Len(docs) |->
                          IF kind = "ingredients" THEN ingredientRow(r.id, docs[i])
                          ELSE stepRow(r.id, docs[i])]
       IN ExpectedChildRows(kind, k - 1) \o own

\* C7 as stated: a failed read of the ingredients or steps of one recipe does
\* not end the run; once the loop is over the rows collected are those of every
\* recipe but the ones whose read failed, and a run that ends without any other
\* failure has written ingredients.csv and steps.csv.
C7_ChildReadFailureNotFatal ==
  ChildReadFailed =>
    /\ ethrown \notin {"ingredients_get", "steps_get"}
    /\ epc \in {"ingredients_write", "steps_write"} =>
         /\ ingredientsRows = ExpectedChildRows("ingredients", Len(store.recipes))
         /\ stepsRows = ExpectedChildRows("steps", Len(store.recipes))
    /\ epc = "done" => csv[IngredientsCsv] # <<>> /\ csv[StepsCsv] # <<>>

\* C8: recipe.csv and the returned ids list the recipes in the order the store
\* listed them; ingredients.csv and steps.csv list the child rows recipe by
\* recipe in that order and, within a recipe, in sub-collection listing order.
C8_TableOrderIsSourceOrder ==
  /\ csv[RecipeCsv] # <<>> =>
       /\ csv[RecipeCsv][1] =
            CsvRows([i \in 1..Len(store.recipes) |-> mapRecipe(impl, store.recipes[i])])
       /\ recipeIds = [i \in 1..Len(store.recipes) |-> store.recipes[i].id]
  /\ csv[IngredientsCsv] # <<>> =>
       csv[IngredientsCsv][1] = CsvRows(ExpectedChildRows("ingredients", Len(store.recipes)))
  /\ csv[StepsCsv] # <<>> =>
       csv[StepsCsv][1] = CsvRows(ExpectedChildRows("steps", Len(store.recipes)))

\* the three files written from a store of two recipes that both have
\* ingredients, one of them two steps
C8_Witness ==
  /\ csv[RecipeCsv] # <<>> /\ csv[IngredientsCsv] # <<>> /\ csv[StepsCsv] # <<>>
  /\ Len(csv[RecipeCsv][1]) = 2
  /\ Len(csv[IngredientsCsv][1]) = 4
  /\ csv[IngredientsCsv][1][1].recipe_id # csv[IngredientsCsv][1][4].recipe_id
  /\ Len(csv[StepsCsv][1]) >= 2

\* ------------------------------------------------------------------------
\* Properties of the row mapper
\* ------------------------------------------------------------------------
\* the source value is present and numeric
PresentAndNumeric(v) == ~IsNullish(v) /\ ~isNaN(Number(v))
\* the source value is missing, null or non-numeric
MissingOrNonNumeric(v) == IsNullish(v) \/ isNaN(Number(v))

\* C9 as stated: the mapped total_time_min is the number of the source
\* total_time_min when that is present and numeric, and otherwise the mapped
\* prep_time_min plus the mapped cook_time_min.
C9_TotalIsExplicitOrSum ==
  mapped # <<>> =>
    LET src == doc.data.total_time_min
        row == mapped[1]
    IN IF PresentAndNumeric(src)
       THEN row.total_time_min = Number(src)
       ELSE row.total_time_min
              = Plus(Number(row.prep_time_min), Number(row.cook_time_min))

\* C10 as stated: a prep_time_min or cook_time_min that is missing, null or
\* non-numeric in the document is 0 in the mapped row.
C10_TimeDefaultsToZero ==
  mapped # <<>> =>
    \A f \in {"prep_time_min", "cook_time_min"} :
      MissingOrNonNumeric(doc.data[f]) => mapped[1][f] = Num(0)


\* C11 as stated: the row mapped from a document whose fields are a mapped row
\* (same document id) is that row again, field by field.
C11_MapperIdempotent == Len(mapped) = 2 => mapped[2] = mapped[1]

\* the field of the mapped row that identifies it
IdField(e) ==
  CASE e = "recipe" -> "recipe_id"
    [] e = "ingredient" -> "ingredient_id"
    [] e = "step" -> "step_id"
    [] OTHER -> "interaction_id"

\* C12 as stated: the identifier of a mapped recipe, ingredient, step or
\* interaction is the explicit id field of the document body when the body
\* has one (a non-empty value), and the store-assigned id of the document
\* only when it has none.
C12_ExplicitIdPreferred ==
  mapped # <<>> /\ entity # "user" =>
    LET explicit == doc.data[IdField(entity)]
    IN mapped[1][IdField(entity)] = IF Truthy(explicit) THEN explicit ELSE doc.id


\* the entity types whose rows have a created_at column
Stamped == {"recipe", "interaction", "user"}

\* a timestamp object or Date whose conversion throws
ConversionFails(ts) == ts.t \in {"timestamp", "date"} /\ ts.n = 1

\* C13: timestamp normalization never raises: its result is always a string;
\* an absent input (undefined, null, empty) gives the empty string, a store
\* timestamp or native date whose conversion succeeds gives its ISO-8601
\* string, and one whose conversion throws gives the original value
\* stringified.
C13_ToISONeverRaises ==
  mapped # <<>> /\ entity \in Stamped =>
    LET ts == doc.data.created_at
        out == mapped[1].created_at
    IN /\ IsString(out)
       /\ (IsNullish(ts) \/ ts = EmptyStr) => out = EmptyStr
       /\ ts.t \in {"timestamp", "date"} /\ ~ConversionFails(ts) => out = Str(ts.s)
       /\ ConversionFails(ts) => out = Str(ToStringChars(ts))

\* part_000 has mapped a timestamp whose toDate() throws
C13_Witness ==
  /\ mapped # <<>>
  /\ entity = "interaction"
  /\ impl = "part_000"
  /\ doc.data.created_at = Timestamp(c_iso, TRUE)
  /\ mapped[1].created_at = Str(ObjectObject)


\* the fields of a document of an entity type that should hold a number and
\* are mapped without conversion
RawFields(e) ==
  CASE e = "recipe" -> {"servings"}
    [] e = "ingredient" -> {"quantity", "order"}
    [] e = "step" -> {"order"}
    [] e = "interaction" -> {"rating"}
    [] OTHER -> {}

\* the value is present in the document and its text violates the rule of
\* the table on that field (the ingredients table has no rule on order)
Malformed(e, f, v) ==
  /\ ~IsNullish(v)
  /\ f \in RuleNames(TableOf(e))
  /\ Violates(TableOf(e), f, [x \in {f} |-> Str(ToStringChars(v))])

WithText(t, idx, text) == {i \in FlatOf(t, idx) : errors[i].error.text = text}

\* the field parses as an integer that is at least 1
IntegerAtLeastOne(v) == NumberAtLeast(v, 1) /\ Number(v).n % Scale = 0

\* C15: a step row has the message 'order must be an integer >= 1' exactly
\* once, echoing the raw order, if and only if its order does not parse as
\* an integer that is at least 1 (empty, non-numeric, non-integer, zero and
\* negative alike); "2.5" and "0" are flagged, "1" is not.
C15_StepOrderRule ==
  Validated =>
    \A idx \in 0..(Len(tables["steps"]) - 1) :
      LET order == tables["steps"][idx + 1].order
          flagged == WithText("steps", idx, "order must be an integer >= 1")
      IN /\ IF IntegerAtLeastOne(order) THEN flagged = {}
            ELSE /\ Cardinality(flagged) = 1
                 /\ \A i \in flagged : errors[i].error.got = order
         /\ order \in {c_n2_5, c_n0} => flagged # {}
         /\ order = c_n1 => flagged = {}

\* a step with order "2.5" has been checked and flagged for its order
C15_Witness ==
  /\ Validated
  /\ \E idx \in 0..(Len(tables["steps"]) - 1) :
       /\ tables["steps"][idx + 1].order = c_n2_5
       /\ WithText("steps", idx, "order must be an integer >= 1") # {}

\* C16: on an interaction row the non-numeric and the out-of-range rating
\* messages never come together: an absent rating or a numeric one in
\* [0, 5] has neither, a present rating that does not parse as a number
\* has the non-numeric message alone ("abc"), and one that parses but lies
\* outside [0, 5] has the out-of-range message alone ("7").
C16_RatingMessagesExclusive ==
  Validated =>
    \A idx \in 0..(Len(tables["interactions"]) - 1) :
      LET rating == tables["interactions"][idx + 1].rating
          nonNumeric == WithText("interactions", idx, "rating must be numeric 0-5")
          outOfRange == WithText("interactions", idx, "rating out of range 0-5")
          inRange == NumberAtLeast(rating, 0) /\ Number(rating).n <= 5 * Scale
      IN /\ nonNumeric = {} \/ outOfRange = {}
         /\ ~IsPresent(rating) \/ inRange => nonNumeric = {} /\ outOfRange = {}
         /\ IsPresent(rating) /\ ~Parses(rating) =>
              Cardinality(nonNumeric) = 1 /\ outOfRange = {}
         /\ Parses(rating) /\ ~inRange =>
              Cardinality(outOfRange) = 1 /\ nonNumeric = {}
         /\ rating = c_abc => nonNumeric # {} /\ outOfRange = {}
         /\ rating = c_n7 => outOfRange # {} /\ nonNumeric = {}

\* an interaction rated "abc" has been checked and has the non-numeric
\* message, and one rated "7" the out-of-range message
C16_Witness ==
  /\ Validated
  /\ \E idx \in 0..(Len(tables["interactions"]) - 1) :
       /\ tables["interactions"][idx + 1].rating = c_abc
       /\ WithText("interactions", idx, "rating must be numeric 0-5") # {}
  /\ \E idx \in 0..(Len(tables["interactions"]) - 1) :
       /\ tables["interactions"][idx + 1].rating = c_n7
       /\ WithText("interactions", idx, "rating out of range 0-5") # {}

\* the text of a difficulty cell, trimmed and lower-cased
DifficultyText(v) == IF v.t = "string" THEN ToLowerCase(Trim(v.s)) ELSE <<>>

\* C17: the difficulty check of a recipe row has exactly one of three
\* outcomes on the lower-cased, trimmed value: no message when it is easy,
\* medium or hard, the 'missing or empty' message alone when it is empty,
\* and the 'invalid difficulty' message alone when it is non-empty and not
\* in the set; never both messages.
C17_DifficultyOutcomes ==
  Validated =>
    \A idx \in 0..(Len(tables["recipes"]) - 1) :
      LET d == DifficultyText(tables["recipes"][idx + 1].difficulty)
          missing == WithText("recipes", idx, "difficulty is missing or empty")
          invalid == WithText("recipes", idx, "invalid difficulty")
      IN /\ missing = {} \/ invalid = {}
         /\ d \in validDifficulties => missing = {} /\ invalid = {}
         /\ d = <<>> => Cardinality(missing) = 1 /\ invalid = {}
         /\ d # <<>> /\ d \notin validDifficulties =>
              Cardinality(invalid) = 1 /\ missing = {}

\* a recipe whose difficulty is " Easy " has been checked without a
\* difficulty message
C17_Witness ==
  /\ Validated
  /\ \E idx \in 0..(Len(tables["recipes"]) - 1) :
       /\ tables["recipes"][idx + 1].difficulty = c_Easy
       /\ WithText("recipes", idx, "difficulty is missing or empty") = {}
       /\ WithText("recipes", idx, "invalid difficulty") = {}


\* ------------------------------------------------------------------------
\* Properties of the analytics run
\* ------------------------------------------------------------------------
\* every table file is missing or has no row
AllEmpty == \A t \in TableSet : ~files[t].exists \/ files[t].rows = <<>>
AllMissing == \A t \in TableSet : ~files[t].exists

\* the statistics of four tables without rows
EmptyStats(st) ==
  /\ st.totalRecipes = 0 /\ st.totalIngredients = 0
  /\ st.totalSteps = 0 /\ st.totalInteractions = 0 /\ st.totalUsers = 0
  /\ st.avgPrep = Ratio(0, 1) /\ st.avgCook = Ratio(0, 1)
  /\ st.prepLikesCorr = ZeroCorr
  /\ st.medianLikes = Ratio(0, 1)
  /\ st.topIngredients = <<>> /\ st.topViewed = <<>> /\ st.topLiked = <<>>
  /\ st.topAttempts = <<>> /\ st.topAvgRated = <<>>
  /\ st.topIngInTopLiked = <<>> /\ st.topIngHighEng = <<>>
  /\ st.difficultyDist = <<>>

\* C18: missing or empty input causes no exception. A missing table file is
\* read as zero rows by both scripts, and no read fails when all four are
\* missing; with the four tables empty, a validation run that meets no
\* write error exits with 0 having written no finding, total_count 0 and
\* valid_count 0 for every table and invalid_count 0, and an analytics run
\* that meets no write error ends normally with zero means, correlation 0,
\* median 0 and empty top lists.
C18_EmptyInputIsWellFormed ==
  /\ \A t \in TableSet : ~files[t].exists =>
       /\ vpc \in {"validating", "write_invalid", "write_summary", "write_report"} =>
            tables[t] = <<>>
       /\ apc \in {"computing", "writing"} => atables[t] = <<>>
  /\ AllMissing => thrown # "read" /\ athrown # "read"
  /\ AllEmpty =>
       /\ Validated => errors = <<>> /\ perRowErrors = <<>>
       /\ InvalidCsv \in written => content.invalid = <<>>
       /\ SummaryCsv \in written =>
            /\ Len(content.summary) = Len(TableNames)
            /\ \A i \in 1..Len(content.summary) :
                 content.summary[i].total_count = 0 /\ content.summary[i].valid_count = 0
       /\ ReportJson \in written =>
            /\ content.report.totals = [t \in TableSet |-> 0]
            /\ content.report.valid_counts = [t \in TableSet |-> 0]
            /\ content.report.invalid_count = 0
            /\ content.report.invalid_records = <<>>
       /\ vpc = "exited" /\ outputDirExists /\ thrown = "none" =>
            exitCode = <<0>> /\ written = Artifacts
       /\ stats # <<>> => EmptyStats(stats[1])
       /\ apc = "exited" /\ outputDirExists /\ athrown = "none" =>
            aexit = <<0>> /\ areport = stats /\ stats # <<>>

\* with the ingredients and steps files missing and the other two without
\* rows, both scripts have ended normally and written their reports
C18_Witness ==
  /\ ~files["ingredients"].exists /\ ~files["steps"].exists
  /\ files["recipes"].exists /\ files["interactions"].exists
  /\ AllEmpty
  /\ vpc = "exited" /\ exitCode = <<0>> /\ ReportJson \in written
  /\ apc = "exited" /\ aexit = <<0>> /\ areport # <<>>


\* the name of an ingredient row without its surrounding white space
NameOf(row) == IF IsString(row.name) THEN Trim(row.name.s) ELSE <<>>

\* the number of ingredient rows read whose trimmed name is key
RowsNamed(key) ==
  Cardinality({i \in 1..Len(atables["ingredients"]) :
                 NameOf(atables["ingredients"][i]) = key})

\* the non-empty trimmed names of the ingredient rows read
NamesRead ==
  {NameOf(atables["ingredients"][i]) : i \in 1..Len(atables["ingredients"])} \ {<<>>}

\* C19: the top-ingredient list has at most 20 entries, in non-increasing
\* order of count, one per key; the count of an entry is the number of
\* ingredient rows whose trimmed name is its key; a name that is empty
\* after trimming is no key; no name left out has a greater count than an
\* entry, and a name is left out only when the list is full. The rows
\* salt/r1, salt/r2, sugar/r1 give salt: 2 first, then sugar: 1.
C19_TopIngredients ==
  stats # <<>> =>
    LET top == stats[1].topIngredients
        keys == {top[i].key : i \in 1..Len(top)}
    IN /\ Len(top) <= TopIngredientsSize
       /\ \A i, j \in 1..Len(top) : i < j =>
            top[i].value >= top[j].value /\ top[i].key # top[j].key
       /\ \A i \in 1..Len(top) :
            top[i].key # <<>> /\ top[i].value = RowsNamed(top[i].key)
       /\ keys \subseteq NamesRead
       /\ \A name \in NamesRead \ keys :
            /\ Len(top) = TopIngredientsSize
            /\ \A i \in 1..Len(top) : RowsNamed(name) <= top[i].value
       /\ (/\ Len(atables["ingredients"]) = 3
           /\ atables["ingredients"][1].name = c_salt
           /\ atables["ingredients"][2].name = c_salt
           /\ atables["ingredients"][3].name = c_sugar)
          => top = <<[key |-> c_salt.s, value |-> 2], [key |-> c_sugar.s, value |-> 1]>>

\* 21 names have been counted, the last one read twice: the list holds 20,
\* the twice-read name first
C19_Witness ==
  /\ stats # <<>>
  /\ Cardinality(NamesRead) = ManyNames
  /\ Len(stats[1].topIngredients) = TopIngredientsSize
  /\ stats[1].topIngredients[1].value = 2
  /\ stats[1].topIngredients[2].value = 1


\* the type of an interaction row, trimmed and lower-cased
TypeOf(row) == IF IsString(row.type) THEN ToLowerCase(Trim(row.type.s)) ELSE <<>>

\* the key under which an interaction row is counted
RecipeKeyOf(row) ==
  IF IsString(row.recipe_id) /\ row.recipe_id.s # <<>> THEN row.recipe_id.s ELSE UNKNOWN

\* the first ingredient row read whose trimmed name is key
FirstNamed(key) ==
  CHOOSE i \in 1..Len(atables["ingredients"]) :
    /\ NameOf(atables["ingredients"][i]) = key
    /\ \A j \in 1..(i - 1) : NameOf(atables["ingredients"][j]) # key

\* the first interaction row read of the given type on the recipe key
FirstOfType(type, key) ==
  CHOOSE i \in 1..Len(atables["interactions"]) :
    /\ TypeOf(atables["interactions"][i]) = type
    /\ RecipeKeyOf(atables["interactions"][i]) = key
    /\ \A j \in 1..(i - 1) :
         ~(TypeOf(atables["interactions"][j]) = type
             /\ RecipeKeyOf(atables["interactions"][j]) = key)

\* entries of equal count are in the order in which the rows first showed
\* their keys
TiesAsFirstNamed(top) ==
  \A i, j \in 1..Len(top) :
    i < j /\ top[i].value = top[j].value => FirstNamed(top[i].key) < FirstNamed(top[j].key)

TiesAsFirstOfType(top, type) ==
  \A i, j \in 1..Len(top) :
    i < j /\ top[i].value = top[j].value =>
      FirstOfType(type, top[i].key) < FirstOfType(type, top[j].key)

\* C20 as stated: in the top lists of ingredients, views, likes and cook
\* attempts, entries with equal counts are in the order in which their keys
\* were first met while scanning the rows, whatever the key strings.
C20_TiesInFirstSeenOrder ==
  stats # <<>> =>
    /\ TiesAsFirstNamed(stats[1].topIngredients)
    /\ TiesAsFirstOfType(stats[1].topViewed, TypeView)
    /\ TiesAsFirstOfType(stats[1].topLiked, TypeLike)
    /\ TiesAsFirstOfType(stats[1].topAttempts, TypeCookAttempt)


\* the sum of the counts of the first k entries
RECURSIVE CountsTo(_, _)
CountsTo(es, k) == IF k = 0 THEN 0 ELSE CountsTo(es, k - 1) + es[k].value

\* the recipe rows read whose difficulty, trimmed and lower-cased, is not
\* easy, medium or hard
UnrecognizedRows ==
  {i \in 1..Len(atables["recipes"]) :
     DifficultyText(atables["recipes"][i].difficulty) \notin validDifficulties}

\* C21 as stated: the difficulty distribution counts every recipe row once
\* (its counts sum to the number of recipe rows), and every row whose
\* difficulty is missing or not a recognized value is counted under the key
\* 'unknown'.
C21_DifficultyDistribution ==
  stats # <<>> =>
    LET dist == stats[1].difficultyDist
    IN /\ CountsTo(dist, Len(dist)) = Len(atables["recipes"])
       /\ CountOf(dist, Unknown) = Cardinality(UnrecognizedRows)


\* the number of like rows read on the recipe key
LikesOn(key) ==
  Cardinality({i \in 1..Len(atables["interactions"]) :
                 /\ TypeOf(atables["interactions"][i]) = TypeLike
                 /\ RecipeKeyOf(atables["interactions"][i]) = key})

\* the recipe keys with at least one like
Liked ==
  {RecipeKeyOf(atables["interactions"][i]) :
     i \in {j \in 1..Len(atables["interactions"]) :
              TypeOf(atables["interactions"][j]) = TypeLike}}

\* the number of likes of each liked recipe
LikeCounts == [k \in Liked |-> LikesOn(k)]

\* the j-th smallest of the counts cnt, repeated values counted each time
KthSmallest(cnt, j) ==
  CHOOSE v \in {cnt[k] : k \in DOMAIN cnt} :
    /\ Cardinality({k \in DOMAIN cnt : cnt[k] < v}) < j
    /\ j <= Cardinality({k \in DOMAIN cnt : cnt[k] <= v})

\* twice the median of the counts cnt
TwiceMedian(cnt) ==
  LET n == Cardinality(DOMAIN cnt)
  IN IF n = 0 THEN 0
     ELSE IF n % 2 = 0 THEN KthSmallest(cnt, n \div 2) + KthSmallest(cnt, (n \div 2) + 1)
     ELSE 2 * KthSmallest(cnt, (n + 1) \div 2)

\* C22: the median is that of the like counts of the recipes with at least
\* one like, the average of the two middle values of the sorted counts when
\* their number is even, and the high-engagement set is exactly the recipes
\* whose like count is strictly greater; like counts 1, 3, 5, 7 give the
\* median 4 and the recipes with 5 and 7 likes.
C22_HighEngagementAboveMedian ==
  stats # <<>> =>
    \A cnt \in {LikeCounts} : \A twice \in {TwiceMedian(cnt)} :
      /\ 2 * stats[1].medianLikes.num = twice * stats[1].medianLikes.den
      /\ stats[1].highEngRecipeIds = {k \in DOMAIN cnt : 2 * cnt[k] > twice}
      /\ atables["interactions"] = LikesOneThreeFiveSeven =>
           /\ stats[1].medianLikes = Ratio(8, 2)
           /\ stats[1].highEngRecipeIds = {c_r3.s, c_r4.s}

\* the like counts 1, 3, 5, 7 have been read and the two recipes above the
\* median 4 found
C22_Witness ==
  /\ stats # <<>>
  /\ {LikesOn(k) : k \in Liked} = {1, 3, 5, 7}
  /\ Cardinality(stats[1].highEngRecipeIds) = 2

\* a series in which every number is the same: its variance is zero
Constant(x) == \A i, j \in 1..Len(x) : x[i] = x[j]

\* the value of a correlation is 0: a zero numerator over a positive denominator
IsZeroCorr(r) == r.num = 0 /\ r.denX > 0 /\ r.denY > 0
\* the value is 1: a positive numerator whose square is denX * denY
IsOneCorr(r) == r.num > 0 /\ r.num * r.num = r.denX * r.denY

\* the prep-time series of the recipes read, in units of 1 / Scale
PrepSeries == [i \in 1..Len(atables["recipes"]) |->
                 UnitsOrZero(atables["recipes"][i].prep_time_min)]
\* the number of likes of each recipe read
LikeSeries == [i \in 1..Len(atables["recipes"]) |->
                 LikesOn(ToStringChars(atables["recipes"][i].recipe_id))]

\* C23: pearson returns 0 when the two series are empty, when they differ
\* in length and when either of them does not vary, and a value of exactly 1
\* (a positive covariance whose square is the product of the two variances)
\* for prep times 10, 20 with like counts 2, 4; in a run of analysis.js the
\* correlation reported for the recipes read is 0 when there is no recipe or
\* when the prep times or the like counts do not vary, and exactly 1 for the
\* two recipes with prep 10, 20 liked 2 and 4 times. (All series are whole
\* numbers, on which the sums of the script are exact.)
C23_CorrelationZeroOrOne ==
  /\ corr # <<>> =>
       LET x == series[1]
           y == series[2]
       IN /\ (Len(x) = 0 \/ Len(x) # Len(y) \/ Constant(x) \/ Constant(y))
               => IsZeroCorr(corr[1])
          /\ (x = <<10, 20>> /\ y = <<2, 4>>) => IsOneCorr(corr[1])
  /\ stats # <<>> =>
       /\ (Constant(PrepSeries) \/ Constant(LikeSeries))
            => IsZeroCorr(stats[1].prepLikesCorr)
       /\ (atables["recipes"] = PrepTenTwenty /\ atables["interactions"] = LikesTwoFour)
            => IsOneCorr(stats[1].prepLikesCorr)

\* a run over the two recipes with prep 10, 20 liked 2 and 4 times has
\* computed its correlation from the series 10, 20 and 2, 4
C23_Witness ==
  /\ stats # <<>>
  /\ PrepSeries = <<10 * Scale, 20 * Scale>>
  /\ LikeSeries = <<2, 4>>
  /\ stats[1].prepLikesCorr.num > 0

\* ------------------------------------------------------------------------
\* Properties of the writes
\* ------------------------------------------------------------------------
\* the positions of wlog at which the script begins a write
Begun(script) == {i \in 1..Len(wlog) : wlog[i].script = script /\ wlog[i].ev = "begin"}
\* the writes of the script in progress after the first k events: begun,
\* and neither ended nor failed
InProgress(script, k) ==
  {i \in Begun(script) :
     /\ i <= k
     /\ ~\E j \in (i + 1)..k :
          /\ wlog[j].script = script /\ wlog[j].file = wlog[i].file
          /\ wlog[j].ev \in {"end", "fail"}}
\* the scripts that write to output/
Writers == Impls \cup {"validate_rule.js"}

\* C24: within a run of the export (either version) and within a run of the
\* validation, no file is written twice, at no moment two writes of the run
\* are in progress, and every write to a file is made by the same step.
C24_EachFileWrittenOnce ==
  \A sc \in Writers :
    /\ \A i, j \in Begun(sc) : wlog[i].file = wlog[j].file => i = j
    /\ \A k \in 0..Len(wlog) : Cardinality(InProgress(sc, k)) <= 1
    /\ \A i, j \in 1..Len(wlog) :
         (wlog[i].script = sc /\ wlog[j].script = sc /\ wlog[i].file = wlog[j].file)
           => wlog[i].step = wlog[j].step

\* an export has written its five tables and a validation its three artifacts
C24_Witness ==
  /\ eexit = <<0>>
  /\ exitCode = <<0>>
  /\ {wlog[i].file : i \in Begun("export_etl.js")} = CsvNames
  /\ {wlog[i].file : i \in Begun("validate_rule.js")} = Artifacts
  /\ \A i \in 1..Len(wlog) : wlog[i].ev # "fail"

\* ------------------------------------------------------------------------
\* Properties of the findings
\* ------------------------------------------------------------------------
\* the record names a row that was read: one of the four tables and a
\* zero-based index below the number of its rows
RefersToRow(rec) ==
  /\ rec.table \in TableSet
  /\ rec.row_index \in 0..(Len(tables[rec.table]) - 1)

\* the zero-based indexes named by the grouped records of table t
IndexesNamed(t) ==
  {perRowErrors[i].row_index : i \in {j \in 1..Len(perRowErrors) : perRowErrors[j].table = t}}

\* C25: every entry of the flat list and every grouped record names one of
\* the four tables and a zero-based row index below the number of rows read
\* from that table; so the rows of a table with a finding are never more than
\* its rows, and every valid_count of the summary is the total minus the
\* number of rows with a finding, which Math.max(0, ...) leaves as it is.
C25_FindingsReferToRows ==
  /\ \A i \in 1..Len(errors) : RefersToRow(errors[i])
  /\ \A i \in 1..Len(perRowErrors) : RefersToRow(perRowErrors[i])
  /\ \A t \in TableSet : Cardinality(IndexesNamed(t)) <= Len(tables[t])
  /\ \A i \in 1..Len(validSummary) :
       LET t == validSummary[i].table
       IN /\ validSummary[i].total_count = Len(tables[t])
          /\ validSummary[i].valid_count = Len(tables[t]) - Cardinality(IndexesNamed(t))
          /\ validSummary[i].valid_count >= 0

\* the last of several rows of a table has a finding, and the summary counts
\* fewer valid rows than rows for that table
C25_Witness ==
  /\ validSummary # <<>>
  /\ \E i \in 1..Len(errors) :
       /\ Len(tables[errors[i].table]) >= 2
       /\ errors[i].row_index = Len(tables[errors[i].table]) - 1
       /\ \E j \in 1..Len(validSummary) :
            /\ validSummary[j].table = errors[i].table
            /\ validSummary[j].valid_count < validSummary[j].total_count

\* ------------------------------------------------------------------------
\* Properties of the order of the artifacts
\* ------------------------------------------------------------------------
ByValidation(e) == e.script = "validate_rule.js"
\* the begin and end events of the writes of the validation, in order
ValidationLog == SelectSeq(wlog, ByValidation)
\* the artifacts in the order of the script
ArtifactOrder == <<InvalidCsv, SummaryCsv, ReportJson>>

\* C26: the validation begins its writes in the order validation_invalid.csv,
\* validation_valid_summary.csv, validation_report.json, and each write has
\* ended (or failed, which ends the run) before the next begins; a file counts
\* as written once its write has ended. So when the report is written both
\* CSV files are written, and exit code 0 is reached only with all three
\* written, the end of the report write being the last event.
C26_ArtifactsInOrder ==
  LET log == ValidationLog
  IN /\ \A k \in 1..Len(log) :
          /\ (k + 1) \div 2 <= Len(ArtifactOrder)
          /\ log[k].file = ArtifactOrder[(k + 1) \div 2]
          /\ log[k].ev = "begin" <=> k % 2 = 1
          /\ (log[k].ev = "fail") => k = Len(log)
     /\ written = {log[k].file : k \in {j \in 1..Len(log) : log[j].ev = "end"}}
     /\ ReportJson \in written => {InvalidCsv, SummaryCsv} \subseteq written
     /\ exitCode = <<0>> =>
          /\ written = Artifacts
          /\ Len(log) = 2 * Len(ArtifactOrder)
          /\ log[Len(log)] = [script |-> "validate_rule.js", step |-> "write_report",
                               file |-> ReportJson, ev |-> "end"]

\* a run with findings has written the three artifacts one after the other
\* and exited with 0
C26_Witness ==
  /\ exitCode = <<0>>
  /\ errors # <<>>
  /\ [k \in 1..Len(ValidationLog) |-> ValidationLog[k].ev]
       = <<"begin", "end", "begin", "end", "begin", "end">>
  /\ ReportJson \in written

\* ------------------------------------------------------------------------
\* Properties of the reads
\* ------------------------------------------------------------------------
\* the rows the script got from await Promise.all
TablesOf(sc) == IF sc = "validate_rule.js" THEN tables ELSE atables
\* the script has gone past await Promise.all
PastReads(sc) ==
  IF sc = "validate_rule.js"
  THEN vpc \in {"validating", "write_invalid", "write_summary", "write_report"}
         \/ errors # <<>> \/ perRowErrors # <<>> \/ tables # NoTables
  ELSE apc \in {"computing", "writing"} \/ stats # <<>> \/ atables # NoTables
\* the script has exited with code 1 and has processed nothing
FailedUnprocessed(sc) ==
  IF sc = "validate_rule.js"
  THEN /\ vpc = "exited" /\ exitCode = <<1>>
       /\ tables = NoTables /\ errors = <<>> /\ perRowErrors = <<>> /\ written = {}
  ELSE /\ apc = "exited" /\ aexit = <<1>>
       /\ atables = NoTables /\ stats = <<>> /\ areport = <<>>

\* C27: whatever the order of the data, end and error events of the four
\* streams of validate_rule.js and of the four streams of analysis.js, the rows
\* array of each stream holds the rows of its own file read so far, in file
\* order, and all of them once the stream has ended; the script goes on past
\* await Promise.all only when its four reads have ended, with each table
\* holding exactly the rows of its file (none for a missing file); and when
\* any one stream fails the script exits with 1 without having processed a row.
C27_ReadsIsolated ==
  \A sc \in Scripts :
    /\ \A t \in TableSet :
         LET st == streams[sc][t]
         IN /\ st.rows = SubSeq(files[t].rows, 1, st.pos)
            /\ st.state = "resolved" => st.rows = readCsv(files[t])
    /\ PastReads(sc) =>
         \A t \in TableSet :
           /\ streams[sc][t].state = "resolved"
           /\ TablesOf(sc)[t] = readCsv(files[t])
    /\ (\E t \in TableSet : streams[sc][t].state = "failed") => FailedUnprocessed(sc)

\* both scripts have gone past their reads of two table files with a row
\* each, read while the streams of the other script were open
C27_Witness ==
  /\ vpc = "write_invalid"
  /\ apc = "writing"
  /\ \E t, u \in TableSet : t # u /\ tables[t] # <<>> /\ atables[u] # <<>>
  /\ tables = atables

====
